---- MODULE Spec2Model ----
(***************************************************************************)
(* Weather-report: the weather client (fetch_weather), the batch fetch     *)
(* pipeline (fetch_weather_batch) and the WMO code table of                *)
(* weather_report/weather_service.py.                                      *)
(*                                                                         *)
(* Numbers of the provider's JSON are kept in tenths (25.0 is 250), so     *)
(* that float() and int() are conversions that can differ.                 *)
(***************************************************************************)
EXTENDS Integers, Sequences, FiniteSets, TLC

VARIABLES
    countries,    \* fetch_weather_batch: the `countries` argument
    on_error,     \* fetch_weather_batch: the `on_error` argument
    provider,     \* the answers the forecast provider may give in this run
    caller,       \* who calls fetch_weather: "batch", "direct" or "none"
    pc,           \* position of the caller
    i,            \* number of list elements the for loop has taken
    results,      \* fetch_weather_batch: the local list `results`
    ret,          \* what the caller got back (NoResult until it returns)
    err,          \* the exception that left the caller (NoError if none)
    fpc,          \* position inside the running fetch_weather invocation
    fCountry,     \* fetch_weather: the `country` argument
    fResp,        \* fetch_weather: the provider's answer to the request
    fOut,         \* how the last fetch_weather invocation ended
    calls,        \* number of fetch_weather invocations so far
    requestLog,   \* every outbound request issued, in order
    inflight,     \* outbound requests issued and not yet answered
    parsed,       \* invocations whose response body was parsed (response.json())
    attempts,     \* list positions handed to fetch_weather, in order
    outcomes,     \* how each finished invocation ended, in order
    code,         \* interpret_weather_code: the `code` argument
    condition,    \* interpret_weather_code: the value returned
    cmd,          \* cli: the subcommand and its NAME argument
    cpc,          \* cli: position inside the running command
    exit,         \* cli: the exit code the command returned (<<>> until it returns)
    stdout,       \* cli: what the command printed to standard output
    stderr,       \* cli: what the command printed to standard error
    request,      \* api: the request being served
    response,     \* api: the answer to it
    query,        \* geography store: the function called and its argument
    answer,       \* geography store: what it returned
    tables,       \* geography store: the module-level tables
    held,         \* the lists get_all_* returned that a caller still holds
    obj,          \* a dataclass instance some code holds
    assignment,   \* the attribute assignment attempted on it, and how it ended
    weather_list, \* report: the `weather_list` argument
    extremes,     \* report: what find_extremes returned
    summary       \* report: what format_continent_summary returned

vars == <<countries, on_error, provider, caller, pc, i, results, ret, err,
          fpc, fCountry, fResp, fOut, calls, requestLog, inflight, parsed,
          attempts, outcomes, code, condition, cmd, cpc, exit, stdout, stderr,
          request, response, query, answer, tables, held, obj, assignment,
          weather_list, extremes, summary>>

batchVars == <<countries, on_error, i, results>>
fetchVars == <<fpc, fCountry, fResp, fOut, calls, requestLog, inflight, parsed,
               outcomes>>
codeVars == <<code, condition>>
cliVars == <<cmd, cpc, exit, stdout, stderr>>
apiVars == <<request, response>>
storeVars == <<query, answer, tables, held>>
objVars == <<obj, assignment>>
reportVars == <<weather_list, extremes, summary>>
\* the state of the components fetch_weather and fetch_weather_batch do not touch
extVars == <<cliVars, apiVars, storeVars, objVars, reportVars>>

----------------------------------------------------------------------------
(* Bounds *)

\* longest input list of a batch
MaxLen == 3
\* interpret_weather_code is applied to every code in -NegCodes .. MaxCode
NegCodes == 5
MaxCode == 105

----------------------------------------------------------------------------
(* weather_service.py: constants and the code table *)

OPEN_METEO_BASE_URL == "https://api.open-meteo.com/v1/forecast"
REQUEST_TIMEOUT == 10
CURRENT_FIELDS == "temperature_2m,relative_humidity_2m,weather_code,wind_speed_10m"

WeatherCondition ==
    {"CLEAR", "PARTLY_CLOUDY", "OVERCAST", "FOG", "DRIZZLE", "RAIN", "SNOW",
     "THUNDERSTORM", "UNKNOWN"}

WMO_CODE_MAP ==
    (0 :> "CLEAR") @@ (1 :> "CLEAR") @@ (2 :> "PARTLY_CLOUDY") @@
    (3 :> "OVERCAST") @@ (45 :> "FOG") @@ (48 :> "FOG") @@
    (51 :> "DRIZZLE") @@ (53 :> "DRIZZLE") @@ (55 :> "DRIZZLE") @@
    (56 :> "DRIZZLE") @@ (57 :> "DRIZZLE") @@
    (61 :> "RAIN") @@ (63 :> "RAIN") @@ (65 :> "RAIN") @@ (66 :> "RAIN") @@
    (67 :> "RAIN") @@
    (71 :> "SNOW") @@ (73 :> "SNOW") @@ (75 :> "SNOW") @@ (77 :> "SNOW") @@
    (80 :> "RAIN") @@ (81 :> "RAIN") @@ (82 :> "RAIN") @@
    (85 :> "SNOW") @@ (86 :> "SNOW") @@
    (95 :> "THUNDERSTORM") @@ (96 :> "THUNDERSTORM") @@ (99 :> "THUNDERSTORM")

\* a plausible slip: the rain showers 80..82 filed with the snow showers 85, 86
interpret_weather_code_showers(c) ==
    IF c \in {80, 81, 82} THEN "SNOW"
    ELSE IF c \in DOMAIN WMO_CODE_MAP THEN WMO_CODE_MAP[c] ELSE "UNKNOWN"

\* dict.get(code, UNKNOWN)
interpret_weather_code(c) ==
    IF c \in DOMAIN WMO_CODE_MAP THEN WMO_CODE_MAP[c] ELSE "UNKNOWN"

\* A Fahrenheit value is kept in fiftieths of a degree, so that the division by 5
\* of a Celsius value in tenths is exact: c/10 * 9/5 + 32 = (9c + 1600)/50.
FahrenheitDegrees(f) == f * 50

\* a slip: 9 // 5, the integer division, which is 1
celsius_to_fahrenheit_floordiv(celsius) == (celsius * 5) + FahrenheitDegrees(32)

\* (celsius * 9 / 5) + 32, celsius in tenths, the result in fiftieths
celsius_to_fahrenheit(celsius) == (celsius * 9) + FahrenheitDegrees(32)

----------------------------------------------------------------------------
(* Values of the provider's JSON, and Python's float() and int() on them *)

Num(v) == [t |-> "num", v |-> v]
Str == [t |-> "str", v |-> 0]      \* a string that is no number, "n/a"
Null == [t |-> "null", v |-> 0]    \* JSON null, Python None

Raised(kind) == [ok |-> FALSE, v |-> 0, exc |-> kind]
Value(v) == [ok |-> TRUE, v |-> v, exc |-> "none"]

\* float(x): a number as it is; a non-numeric string raises ValueError,
\* None raises TypeError
PyFloat(x) ==
    CASE x.t = "num" -> Value(x.v)
      [] x.t = "str" -> Raised("ValueError")
      [] OTHER -> Raised("TypeError")

\* int(x): a number truncated toward zero (whole units, not tenths)
PyInt(x) ==
    CASE x.t = "num" -> Value(IF x.v >= 0 THEN x.v \div 10 ELSE -((-x.v) \div 10))
      [] x.t = "str" -> Raised("ValueError")
      [] OTHER -> Raised("TypeError")

\* current[key]: KeyError when the key is absent
GetItem(current, key) ==
    IF key \in DOMAIN current THEN [ok |-> TRUE, x |-> current[key], exc |-> "none"]
    ELSE [ok |-> FALSE, x |-> Null, exc |-> "KeyError"]

\* float(current[key]) / int(current[key])
FloatField(current, key) ==
    IF GetItem(current, key).ok THEN PyFloat(GetItem(current, key).x)
    ELSE Raised("KeyError")

IntField(current, key) ==
    IF GetItem(current, key).ok THEN PyInt(GetItem(current, key).x)
    ELSE Raised("KeyError")

----------------------------------------------------------------------------
(* Locations and provider answers *)

Country(name, capital, latitude, longitude, continent) ==
    [name |-> name, capital |-> capital, latitude |-> latitude,
     longitude |-> longitude, continent |-> continent]

SAMPLE_COUNTRY == Country("TestLand", "TestCity", 100, 200, "TestContinent")
OTHER_COUNTRY == Country("OtherLand", "OtherCity", 300, 400, "OtherContinent")
Countries == {SAMPLE_COUNTRY, OTHER_COUNTRY}

Fields == {"temperature_2m", "relative_humidity_2m", "weather_code", "wind_speed_10m"}

\* what the provider may put in each field of `current`
FieldValues(key) ==
    CASE key = "temperature_2m" ->
          {Num(250), Num(-50), Num(0), Num(1000), Num(-400), Num(253), Str, Null}
      [] key = "relative_humidity_2m" -> {Num(600), Num(907), Str, Null}
      [] key = "weather_code" -> {Num(0), Num(630), Num(730), Num(40), Num(-10), Str, Null}
      [] OTHER -> {Num(155), Num(0), Str, Null}

AllValues == UNION {FieldValues(k) : k \in Fields}

\* every `current` object: any subset of the fields, each with one of its values
Currents ==
    {c \in UNION {[S -> AllValues] : S \in SUBSET Fields} :
        \A k \in DOMAIN c : c[k] \in FieldValues(k)}

\* a provider answer: how the transport ended and, when it delivered, the body
Response(transport, cause, body, hasCurrent, current) ==
    [transport |-> transport, cause |-> cause, body |-> body,
     hasCurrent |-> hasCurrent, current |-> current]

NoCurrent == [k \in {} |-> Null]

TransportFailures ==
    {Response("ConnectionError", "Network error", "none", FALSE, NoCurrent),
     Response("Timeout", "Read timed out", "none", FALSE, NoCurrent),
     Response("HTTPError", "500 Server Error", "none", FALSE, NoCurrent)}

UnparsableBodies ==
    {Response("ok", "", "notjson", FALSE, NoCurrent),    \* response.json() raises ValueError
     Response("ok", "", "object", FALSE, NoCurrent),     \* {"unexpected": "data"}
     Response("ok", "", "array", FALSE, NoCurrent)}      \* a JSON array

Delivered(current) == Response("ok", "", "object", TRUE, current)

AllResponses ==
    TransportFailures \cup UnparsableBodies \cup {Delivered(c) : c \in Currents}

SAMPLE_API_RESPONSE ==
    Delivered(("temperature_2m" :> Num(250)) @@ ("relative_humidity_2m" :> Num(600)) @@
              ("weather_code" :> Num(0)) @@ ("wind_speed_10m" :> Num(155)))
RAIN_RESPONSE ==
    Delivered(("temperature_2m" :> Num(-50)) @@ ("relative_humidity_2m" :> Num(907)) @@
              ("weather_code" :> Num(630)) @@ ("wind_speed_10m" :> Num(0)))

\* the answers a batch run draws from: one of each way a fetch can end
BatchResponses ==
    {SAMPLE_API_RESPONSE, RAIN_RESPONSE,
     Response("Timeout", "Read timed out", "none", FALSE, NoCurrent),
     Response("ok", "", "object", FALSE, NoCurrent),
     Delivered(("temperature_2m" :> Num(250)) @@ ("relative_humidity_2m" :> Num(600)) @@
               ("weather_code" :> Num(0))),
     Delivered(("temperature_2m" :> Str) @@ ("relative_humidity_2m" :> Num(600)) @@
               ("weather_code" :> Num(0)) @@ ("wind_speed_10m" :> Num(155)))}

Policies == {"skip", "raise", "ignore"}

\* all lists of locations of length at most MaxLen
Lists == UNION {[1..n -> Countries] : n \in 0..MaxLen}

----------------------------------------------------------------------------
(* How a fetch_weather invocation ends *)

\* a slip: humidity and wind speed passed in each other's place
WeatherDataSwapped(country, temp_c, humidity, wind, weather_code) ==
    [country |-> country.name,
     capital |-> country.capital,
     continent |-> country.continent,
     temperature_celsius |-> temp_c,
     temperature_fahrenheit |-> celsius_to_fahrenheit(temp_c),
     humidity |-> wind,
     wind_speed_kmh |-> humidity,
     condition |-> interpret_weather_code(weather_code),
     weather_code |-> weather_code]

WeatherData(country, temp_c, humidity, wind, weather_code) ==
    [country |-> country.name,
     capital |-> country.capital,
     continent |-> country.continent,
     temperature_celsius |-> temp_c,
     temperature_fahrenheit |-> celsius_to_fahrenheit(temp_c),
     humidity |-> humidity,
     wind_speed_kmh |-> wind,
     condition |-> interpret_weather_code(weather_code),
     weather_code |-> weather_code]

Returned(data, call) == [kind |-> "ok", data |-> <<data>>, msg |-> <<>>, call |-> call]
Failed(kind, msg, call) == [kind |-> kind, data |-> <<>>, msg |-> msg, call |-> call]
NoOutcome == [kind |-> "none", data |-> <<>>, msg |-> <<>>, call |-> 0]

\* f"Failed to fetch weather for {country.name} ({country.capital}): {e}"
TransportMessage(country, e) ==
    <<"Failed to fetch weather for ", country.name, " (", country.capital, "): ", e>>

\* f"Invalid response for {country.name} ({country.capital}): {e}"
ParseMessage(country, e) ==
    <<"Invalid response for ", country.name, " (", country.capital, "): ", e>>

\* requests.get(...) / response.raise_for_status() raised a RequestException
TransportFailed(resp) == resp.transport # "ok"

\* data = response.json(); current = data["current"]: the exception raised, or "none"
ParseRaises(resp) ==
    CASE resp.body = "notjson" -> "ValueError"
      [] resp.body = "array" -> "TypeError"
      [] resp.body = "object" /\ ~resp.hasCurrent -> "KeyError"
      [] OTHER -> "none"

\* a slip: only ValueError caught, so the KeyError of data["current"] escapes
ParseCaughtValueErrorOnly(exc) == exc = "ValueError"

\* except (ValueError, KeyError)
ParseCaught(exc) == exc \in {"ValueError", "KeyError"}

\* str(e) of the exception the parse step caught
ParseCause(resp) == IF resp.body = "notjson" THEN "Invalid JSON" ELSE "'current'"

\* str(e) of an exception the parse step let through
EscapedCause(resp) == IF resp.body = "array" THEN "list indices must be integers" ELSE "'current'"

\* lines 110-123, in evaluation order: temperature, weather code, humidity, wind
Build(country, current, call) ==
    LET temp_c == FloatField(current, "temperature_2m")
        weather_code == IntField(current, "weather_code")
        humidity == IntField(current, "relative_humidity_2m")
        wind == FloatField(current, "wind_speed_10m")
    IN  CASE ~temp_c.ok -> Failed(temp_c.exc, <<"temperature_2m">>, call)
          [] ~weather_code.ok -> Failed(weather_code.exc, <<"weather_code">>, call)
          [] ~humidity.ok -> Failed(humidity.exc, <<"relative_humidity_2m">>, call)
          [] ~wind.ok -> Failed(wind.exc, <<"wind_speed_10m">>, call)
          [] OTHER -> Returned(WeatherData(country, temp_c.v, humidity.v, wind.v,
                                           weather_code.v), call)

----------------------------------------------------------------------------
(* State after construction *)

NoResult == [returned |-> FALSE, value |-> <<>>]
Result(value) == [returned |-> TRUE, value |-> value]

Idle ==
    /\ i = 0
    /\ results = <<>>
    /\ ret = NoResult
    /\ err = NoOutcome
    /\ fpc = "idle"
    /\ fCountry = SAMPLE_COUNTRY
    /\ fResp = SAMPLE_API_RESPONSE
    /\ fOut = NoOutcome
    /\ calls = 0
    /\ requestLog = <<>>
    /\ inflight = 0
    /\ parsed = {}
    /\ attempts = <<>>
    /\ outcomes = <<>>

City(name, country, region, latitude, longitude, is_capital) ==
    [name |-> name, country |-> country, region |-> region, latitude |-> latitude,
     longitude |-> longitude, is_capital |-> is_capital]

Region(name, country, continent) ==
    [name |-> name, country |-> country, continent |-> continent]

COUNTRIES ==
    <<Country("India", "New Delhi", 286, 772, "Asia"),
      Country("Japan", "Tokyo", 357, 1397, "Asia"),
      Country("United Kingdom", "London", 515, -1, "Europe"),
      Country("Fiji", "Suva", -181, 1784, "Oceania")>>

CITIES ==
    <<City("New Delhi", "India", "Delhi", 286, 772, TRUE),
      City("Mumbai", "India", "Maharashtra", 191, 729, FALSE),
      City("Tokyo", "Japan", "Kanto", 357, 1397, TRUE),
      City("Osaka", "Japan", "Kansai", 347, 1355, FALSE),
      City("London", "United Kingdom", "England", 515, -1, TRUE)>>

REGIONS ==
    <<Region("Maharashtra", "India", "Asia"),
      Region("Kanto", "Japan", "Asia"),
      Region("Kansai", "Japan", "Asia"),
      Region("England", "United Kingdom", "Europe")>>

\* the tables as the modules hold them once loaded
LoadedTables == [countries |-> COUNTRIES, cities |-> CITIES, regions |-> REGIONS]

NoCommand == [command |-> "none", name |-> ""]
NoRequest == [endpoint |-> "none", name |-> "", country |-> <<>>, continent |-> <<>>,
              capitals_only |-> FALSE]
NoResponse == [status |-> 0, detail |-> <<>>, body |-> <<>>]
NoQuery == [fn |-> "none", arg |-> ""]
None == [none |-> TRUE]
NoAssignment == [field |-> "none", value |-> "none", raised |-> "none", before |-> None]

CliIdle ==
    /\ cmd = NoCommand
    /\ cpc = "idle"
    /\ exit = <<>>
    /\ stdout = <<>>
    /\ stderr = <<>>

ApiIdle == request = NoRequest /\ response = NoResponse

StoreIdle == query = NoQuery /\ answer = <<>> /\ tables = LoadedTables /\ held = <<>>

ObjIdle == obj = None /\ assignment = NoAssignment

ReportIdle == weather_list = <<>> /\ extremes = None /\ summary = None

\* a call of fetch_weather_batch(countries, on_error)
Init ==
    /\ countries \in Lists
    /\ on_error \in Policies
    /\ provider = BatchResponses
    /\ caller = "batch"
    /\ pc = "loop"
    /\ code = 0
    /\ condition = "none"
    /\ Idle
    /\ CliIdle /\ ApiIdle /\ StoreIdle /\ ObjIdle /\ ReportIdle

\* a call of fetch_weather(country)
InitFetch ==
    /\ countries \in {<<c>> : c \in Countries}
    /\ on_error = "skip"
    /\ provider = AllResponses
    /\ caller = "direct"
    /\ pc = "start"
    /\ code = 0
    /\ condition = "none"
    /\ Idle
    /\ CliIdle /\ ApiIdle /\ StoreIdle /\ ObjIdle /\ ReportIdle

\* a call of interpret_weather_code(code)
InitCode ==
    /\ countries = <<>>
    /\ on_error = "skip"
    /\ provider = {}
    /\ caller = "none"
    /\ pc = "start"
    /\ code \in (-NegCodes)..MaxCode
    /\ condition = "none"
    /\ Idle
    /\ CliIdle /\ ApiIdle /\ StoreIdle /\ ObjIdle /\ ReportIdle

----------------------------------------------------------------------------
(* fetch_weather, step by step *)

\* entering fetch_weather(country)
Enter(country) ==
    /\ fpc = "idle"
    /\ fpc' = "request"
    /\ fCountry' = country
    /\ calls' = calls + 1
    /\ UNCHANGED <<fResp, fOut, requestLog, inflight, parsed, outcomes>>

\* leaving fetch_weather with outcome `out`
Leave(out) ==
    /\ fpc' = "done"
    /\ fOut' = out
    /\ outcomes' = Append(outcomes, out)

\* requests.get(OPEN_METEO_BASE_URL, params=params, timeout=REQUEST_TIMEOUT) goes out
FetchRequest ==
    /\ fpc = "request"
    /\ requestLog' = Append(requestLog,
          [call |-> calls, url |-> OPEN_METEO_BASE_URL,
           latitude |-> fCountry.latitude, longitude |-> fCountry.longitude,
           current |-> CURRENT_FIELDS, timeout |-> REQUEST_TIMEOUT])
    /\ inflight' = inflight + 1
    /\ fpc' = "inflight"
    /\ UNCHANGED <<fCountry, fResp, fOut, calls, parsed, outcomes>>
    /\ UNCHANGED <<batchVars, codeVars, provider, caller, pc, ret, err, attempts>>
    /\ UNCHANGED extVars

\* a slip: a timed-out request is sent again
FetchTransportRetry ==
    /\ fpc = "inflight"
    /\ \E resp \in provider :
          /\ fResp' = resp
          /\ inflight' = inflight - 1
          /\ IF resp.transport = "Timeout" /\ Len(requestLog) = calls
                THEN /\ fpc' = "request"
                     /\ UNCHANGED <<fOut, outcomes>>
                ELSE IF TransportFailed(resp)
                THEN Leave(Failed("WeatherServiceError",
                                  TransportMessage(fCountry, resp.cause), calls))
                ELSE /\ fpc' = "parse"
                     /\ UNCHANGED <<fOut, outcomes>>
    /\ UNCHANGED <<fCountry, calls, requestLog, parsed>>
    /\ UNCHANGED <<batchVars, codeVars, provider, caller, pc, ret, err, attempts>>
    /\ UNCHANGED extVars

\* a slip: the RequestException swallowed, so the code goes on to parse
FetchTransportFallThrough ==
    /\ fpc = "inflight"
    /\ \E resp \in provider :
          /\ fResp' = resp
          /\ inflight' = inflight - 1
          /\ fpc' = "parse"
          /\ UNCHANGED <<fOut, outcomes>>
    /\ UNCHANGED <<fCountry, calls, requestLog, parsed>>
    /\ UNCHANGED <<batchVars, codeVars, provider, caller, pc, ret, err, attempts>>
    /\ UNCHANGED extVars

\* the request ends: requests.get returns or raises, then raise_for_status();
\* a RequestException becomes WeatherServiceError (lines 94-100)
FetchTransport ==
    /\ fpc = "inflight"
    /\ \E resp \in provider :
          /\ fResp' = resp
          /\ inflight' = inflight - 1
          /\ IF TransportFailed(resp)
                THEN Leave(Failed("WeatherServiceError",
                                  TransportMessage(fCountry, resp.cause), calls))
                ELSE /\ fpc' = "parse"
                     /\ UNCHANGED <<fOut, outcomes>>
    /\ UNCHANGED <<fCountry, calls, requestLog, parsed>>
    /\ UNCHANGED <<batchVars, codeVars, provider, caller, pc, ret, err, attempts>>
    /\ UNCHANGED extVars

\* data = response.json(); current = data["current"] (lines 102-108)
FetchParse ==
    /\ fpc = "parse"
    /\ parsed' = parsed \cup {calls}
    /\ LET exc == ParseRaises(fResp)
       IN  CASE exc = "none" ->
                  /\ fpc' = "build"
                  /\ UNCHANGED <<fOut, outcomes>>
             [] exc # "none" /\ ParseCaught(exc) ->
                  Leave(Failed("WeatherServiceError",
                               ParseMessage(fCountry, ParseCause(fResp)), calls))
             [] OTHER ->
                  Leave(Failed(exc, <<EscapedCause(fResp)>>, calls))
    /\ UNCHANGED <<fCountry, fResp, calls, requestLog, inflight>>
    /\ UNCHANGED <<batchVars, codeVars, provider, caller, pc, ret, err, attempts>>
    /\ UNCHANGED extVars

\* the coercions and the WeatherData constructor (lines 110-123)
FetchBuild ==
    /\ fpc = "build"
    /\ Leave(Build(fCountry, fResp.current, calls))
    /\ UNCHANGED <<fCountry, fResp, calls, requestLog, inflight, parsed>>
    /\ UNCHANGED <<batchVars, codeVars, provider, caller, pc, ret, err, attempts>>
    /\ UNCHANGED extVars

----------------------------------------------------------------------------
(* fetch_weather_batch *)

\* a slip: the next fetch is started without waiting for the one under way
BatchNextEager ==
    /\ caller = "batch"
    /\ pc \in {"loop", "wait"}
    /\ fpc \in {"idle", "inflight"}
    /\ i < Len(countries)
    /\ i' = i + 1
    /\ attempts' = Append(attempts, i + 1)
    /\ pc' = "wait"
    /\ fpc' = "request"
    /\ fCountry' = countries[i + 1]
    /\ calls' = calls + 1
    /\ UNCHANGED <<fResp, fOut, requestLog, inflight, parsed, outcomes>>
    /\ UNCHANGED <<countries, on_error, results, codeVars, provider, caller, ret, err>>
    /\ UNCHANGED extVars

\* for country in countries: ... fetch_weather(country)   (lines 131-133)
BatchNext ==
    /\ caller = "batch"
    /\ pc = "loop"
    /\ i < Len(countries)
    /\ i' = i + 1
    /\ attempts' = Append(attempts, i + 1)
    /\ pc' = "wait"
    /\ Enter(countries[i + 1])
    /\ UNCHANGED <<countries, on_error, results, codeVars, provider, caller, ret, err>>
    /\ UNCHANGED extVars

\* results.append(weather)   (line 134)
BatchAppend ==
    /\ caller = "batch"
    /\ pc = "wait"
    /\ fpc = "done"
    /\ fOut.kind = "ok"
    /\ results' = Append(results, fOut.data[1])
    /\ pc' = "loop"
    /\ fpc' = "idle"
    /\ UNCHANGED <<countries, on_error, i, codeVars, provider, caller, ret, err, attempts>>
    /\ UNCHANGED <<fCountry, fResp, fOut, calls, requestLog, inflight, parsed, outcomes>>
    /\ UNCHANGED extVars

\* a slip: `break` where the handler should fall through to the next location
BatchSkipBreak ==
    /\ caller = "batch"
    /\ pc = "wait"
    /\ fpc = "done"
    /\ fOut.kind = "WeatherServiceError"
    /\ on_error # "raise"
    /\ pc' = "returned"
    /\ ret' = Result(results)
    /\ fpc' = "idle"
    /\ UNCHANGED <<batchVars, codeVars, provider, caller, err, attempts>>
    /\ UNCHANGED <<fCountry, fResp, fOut, calls, requestLog, inflight, parsed, outcomes>>
    /\ UNCHANGED extVars

\* except WeatherServiceError: on_error is not "raise", the loop goes on (lines 135-136)
BatchSkip ==
    /\ caller = "batch"
    /\ pc = "wait"
    /\ fpc = "done"
    /\ fOut.kind = "WeatherServiceError"
    /\ on_error # "raise"
    /\ pc' = "loop"
    /\ fpc' = "idle"
    /\ UNCHANGED <<batchVars, codeVars, provider, caller, ret, err, attempts>>
    /\ UNCHANGED <<fCountry, fResp, fOut, calls, requestLog, inflight, parsed, outcomes>>
    /\ UNCHANGED extVars

\* a slip: the error is noted and the partial list returned after the loop
BatchRaiseLate ==
    /\ caller = "batch"
    /\ pc = "wait"
    /\ fpc = "done"
    /\ fOut.kind = "WeatherServiceError"
    /\ on_error = "raise"
    /\ pc' = "loop"
    /\ fpc' = "idle"
    /\ UNCHANGED <<batchVars, codeVars, provider, caller, ret, err, attempts>>
    /\ UNCHANGED <<fCountry, fResp, fOut, calls, requestLog, inflight, parsed, outcomes>>
    /\ UNCHANGED extVars

\* a slip: `if on_error != "skip": raise`
BatchRaiseUnlessSkip ==
    /\ caller = "batch"
    /\ pc = "wait"
    /\ fpc = "done"
    /\ fOut.kind = "WeatherServiceError"
    /\ on_error # "skip"
    /\ pc' = "raised"
    /\ err' = fOut
    /\ fpc' = "idle"
    /\ UNCHANGED <<batchVars, codeVars, provider, caller, ret, attempts>>
    /\ UNCHANGED <<fCountry, fResp, fOut, calls, requestLog, inflight, parsed, outcomes>>
    /\ UNCHANGED extVars

\* except WeatherServiceError: if on_error == "raise": raise   (lines 135-137)
BatchRaise ==
    /\ caller = "batch"
    /\ pc = "wait"
    /\ fpc = "done"
    /\ fOut.kind = "WeatherServiceError"
    /\ on_error = "raise"
    /\ pc' = "raised"
    /\ err' = fOut
    /\ fpc' = "idle"
    /\ UNCHANGED <<batchVars, codeVars, provider, caller, ret, attempts>>
    /\ UNCHANGED <<fCountry, fResp, fOut, calls, requestLog, inflight, parsed, outcomes>>
    /\ UNCHANGED extVars

\* an exception that is no WeatherServiceError passes the except clause (line 135)
BatchUncaught ==
    /\ caller = "batch"
    /\ pc = "wait"
    /\ fpc = "done"
    /\ fOut.kind \notin {"ok", "WeatherServiceError"}
    /\ pc' = "raised"
    /\ err' = fOut
    /\ fpc' = "idle"
    /\ UNCHANGED <<batchVars, codeVars, provider, caller, ret, attempts>>
    /\ UNCHANGED <<fCountry, fResp, fOut, calls, requestLog, inflight, parsed, outcomes>>
    /\ UNCHANGED extVars

\* a slip: `return results or None`
BatchReturnOrNone ==
    /\ caller = "batch"
    /\ pc = "loop"
    /\ i = Len(countries)
    /\ pc' = "returned"
    /\ ret' = IF results = <<>> THEN NoResult ELSE Result(results)
    /\ UNCHANGED <<batchVars, codeVars, provider, caller, err, attempts, fetchVars>>
    /\ UNCHANGED extVars

\* return results   (line 138)
BatchReturn ==
    /\ caller = "batch"
    /\ pc = "loop"
    /\ i = Len(countries)
    /\ pc' = "returned"
    /\ ret' = Result(results)
    /\ UNCHANGED <<batchVars, codeVars, provider, caller, err, attempts, fetchVars>>
    /\ UNCHANGED extVars

----------------------------------------------------------------------------
(* fetch_weather called on its own, and interpret_weather_code called on its own *)

\* result = fetch_weather(SAMPLE_COUNTRY)
DirectCall ==
    /\ caller = "direct"
    /\ pc = "start"
    /\ pc' = "wait"
    /\ attempts' = Append(attempts, 1)
    /\ Enter(countries[1])
    /\ UNCHANGED <<batchVars, codeVars, provider, caller, ret, err>>
    /\ UNCHANGED extVars

DirectReturn ==
    /\ caller = "direct"
    /\ pc = "wait"
    /\ fpc = "done"
    /\ fOut.kind = "ok"
    /\ pc' = "returned"
    /\ ret' = Result(fOut.data)
    /\ fpc' = "idle"
    /\ UNCHANGED <<batchVars, codeVars, provider, caller, err, attempts>>
    /\ UNCHANGED <<fCountry, fResp, fOut, calls, requestLog, inflight, parsed, outcomes>>
    /\ UNCHANGED extVars

DirectRaise ==
    /\ caller = "direct"
    /\ pc = "wait"
    /\ fpc = "done"
    /\ fOut.kind # "ok"
    /\ pc' = "raised"
    /\ err' = fOut
    /\ fpc' = "idle"
    /\ UNCHANGED <<batchVars, codeVars, provider, caller, ret, attempts>>
    /\ UNCHANGED <<fCountry, fResp, fOut, calls, requestLog, inflight, parsed, outcomes>>
    /\ UNCHANGED extVars

\* interpret_weather_code(code)
InterpretCode ==
    /\ caller = "none"
    /\ pc = "start"
    /\ pc' = "returned"
    /\ condition' = interpret_weather_code(code)
    /\ UNCHANGED <<batchVars, code, provider, caller, ret, err, attempts, fetchVars>>
    /\ UNCHANGED extVars

----------------------------------------------------------------------------
(* Geography store: weather_report.countries and weather_report.cities *)

\* str.lower() on the names that occur as table entries and as arguments
LowerCase ==
    ("India" :> "india") @@ ("INDIA" :> "india") @@
    ("Japan" :> "japan") @@ ("JAPAN" :> "japan") @@
    ("United Kingdom" :> "united kingdom") @@
    ("Fiji" :> "fiji") @@
    ("Asia" :> "asia") @@ ("ASIA" :> "asia") @@
    ("Europe" :> "europe") @@ ("Oceania" :> "oceania") @@
    ("Tokyo" :> "tokyo") @@ ("TOKYO" :> "tokyo") @@ ("Osaka" :> "osaka") @@
    ("New Delhi" :> "new delhi") @@ ("Mumbai" :> "mumbai") @@
    ("London" :> "london") @@
    ("Atlantis" :> "atlantis") @@ ("Narnia" :> "narnia") @@
    ("NoSuchCity" :> "nosuchcity") @@ ("Indi" :> "indi")

\* a slip: the argument compared as it is
LowerIdentity(str) == str

Lower(str) == IF str \in DOMAIN LowerCase THEN LowerCase[str] ELSE str

\* the first entry of `table` whose name is `name`, ignoring case; None if there is none
ByName(table, name) ==
    LET found == SelectSeq(table, LAMBDA e : Lower(e.name) = Lower(name))
    IN  IF found = <<>> THEN None ELSE found[1]

get_all_countries == COUNTRIES

get_country_by_name(name) == ByName(COUNTRIES, name)

get_countries_by_continent(continent) ==
    SelectSeq(COUNTRIES, LAMBDA c : Lower(c.continent) = Lower(continent))

get_all_cities == CITIES

get_city_by_name(name) == ByName(CITIES, name)

get_cities_by_country(country) ==
    SelectSeq(CITIES, LAMBDA c : Lower(c.country) = Lower(country))

get_capital_cities == SelectSeq(CITIES, LAMBDA c : c.is_capital)

get_all_regions == REGIONS

get_regions_by_country(country) ==
    SelectSeq(REGIONS, LAMBDA r : Lower(r.country) = Lower(country))

\* a slip: the region's country compared in place of its continent
get_regions_by_continent_country(continent) ==
    SelectSeq(REGIONS, LAMBDA r : Lower(r.country) = Lower(continent))

get_regions_by_continent(continent) ==
    SelectSeq(REGIONS, LAMBDA r : Lower(r.continent) = Lower(continent))

\* position of a name in sorted(): the order of the strings by code point
AlphabeticalRank ==
    ("Africa" :> 1) @@ ("Asia" :> 2) @@ ("Europe" :> 3) @@ ("North America" :> 4) @@
    ("Oceania" :> 5) @@ ("OtherContinent" :> 6) @@ ("South America" :> 7) @@
    ("TestContinent" :> 8)

\* the element of a non-empty set of names that sorted() puts first
First(names) == CHOOSE n \in names : \A m \in names : AlphabeticalRank[n] <= AlphabeticalRank[m]

RECURSIVE Sorted(_)
\* sorted(names) of a set of names
Sorted(names) ==
    IF names = {} THEN <<>>
    ELSE <<First(names)>> \o Sorted(names \ {First(names)})

\* the continent of every country, in table order
ContinentColumn(table) == [k \in 1..Len(table) |-> table[k].continent]

\* a slip: the continents as the table lists them, neither sorted nor deduplicated
get_all_continents_unsorted == ContinentColumn(COUNTRIES)

get_all_continents ==
    Sorted({ContinentColumn(COUNTRIES)[k] : k \in 1..Len(COUNTRIES)})

----------------------------------------------------------------------------
(* cli.py: cmd_country, cmd_continent, cmd_all *)

\* what the report functions print, by what it says
format_single_report(weather) ==
    [kind |-> "single_report", count |-> 1, rows |-> <<weather.country>>]

generate_full_report(wl) ==
    [kind |-> "full_report", count |-> Len(wl),
     rows |-> [k \in 1..Len(wl) |-> wl[k].country]]

format_extremes_text(wl) ==
    [kind |-> "extremes", count |-> Len(wl), rows |-> <<>>]

Line(text) == [kind |-> "line", count |-> 0, rows |-> text]

\* the names typed after `country` and `continent`
CliNames == {"India", "india", "JAPAN", "Fiji", "Atlantis", "", "Indi",
             "Asia", "asia", "Europe", "Narnia"}

Commands ==
    {[command |-> "all", name |-> ""]} \cup
    {[command |-> c, name |-> n] : c \in {"country", "continent"}, n \in CliNames}

\* a command is entered
InitCli ==
    /\ cmd \in Commands
    /\ cpc = "start"
    /\ exit = <<>>
    /\ stdout = <<>>
    /\ stderr = <<>>
    /\ countries = <<>>
    /\ on_error = "unset"
    /\ provider = BatchResponses
    /\ caller = "none"
    /\ pc = "idle"
    /\ code = 0
    /\ condition = "none"
    /\ Idle
    /\ ApiIdle /\ StoreIdle /\ ObjIdle /\ ReportIdle

cliFrame == <<cmd, apiVars, storeVars, objVars, reportVars, codeVars, provider,
              i, results, ret, err, attempts, fetchVars>>

\* cmd_country: country = get_country_by_name(name); if not country: ... return 1
CmdCountryNotFound ==
    /\ cpc = "start"
    /\ cmd.command = "country"
    /\ get_country_by_name(cmd.name) = None
    /\ stderr' = stderr \o
          <<<<"Error: Country '", cmd.name, "' not found.">>,
            <<"Use 'weather-report list-countries' to see available countries.">>>>
    /\ exit' = <<1>>
    /\ cpc' = "done"
    /\ UNCHANGED <<stdout, countries, on_error, caller, pc>>
    /\ UNCHANGED cliFrame

\* cmd_country: the country is found; try: weather = fetch_weather(country)
CmdCountryFetch ==
    /\ cpc = "start"
    /\ cmd.command = "country"
    /\ get_country_by_name(cmd.name) # None
    /\ countries' = <<get_country_by_name(cmd.name)>>
    /\ caller' = "direct"
    /\ pc' = "start"
    /\ cpc' = "fetch"
    /\ UNCHANGED <<stdout, stderr, exit, on_error>>
    /\ UNCHANGED cliFrame

\* a slip: the error is reported and 0 returned
CmdCountryErrorZero ==
    /\ cpc = "fetch"
    /\ cmd.command = "country"
    /\ pc = "raised"
    /\ err.kind = "WeatherServiceError"
    /\ stderr' = Append(stderr, <<"Error: ">> \o err.msg)
    /\ exit' = <<0>>
    /\ cpc' = "done"
    /\ UNCHANGED <<stdout, countries, on_error, caller, pc>>
    /\ UNCHANGED cliFrame

\* cmd_country: except WeatherServiceError as e: print(f"Error: {e}", file=sys.stderr); return 1
CmdCountryError ==
    /\ cpc = "fetch"
    /\ cmd.command = "country"
    /\ pc = "raised"
    /\ err.kind = "WeatherServiceError"
    /\ stderr' = Append(stderr, <<"Error: ">> \o err.msg)
    /\ exit' = <<1>>
    /\ cpc' = "done"
    /\ UNCHANGED <<stdout, countries, on_error, caller, pc>>
    /\ UNCHANGED cliFrame

\* cmd_country: an exception that is no WeatherServiceError passes the except clause
CmdCountryEscape ==
    /\ cpc = "fetch"
    /\ cmd.command = "country"
    /\ pc = "raised"
    /\ err.kind # "WeatherServiceError"
    /\ cpc' = "escaped"
    /\ UNCHANGED <<stdout, stderr, exit, countries, on_error, caller, pc>>
    /\ UNCHANGED cliFrame

\* cmd_country: the report is printed; return 0
CmdCountryReport ==
    /\ cpc = "fetch"
    /\ cmd.command = "country"
    /\ pc = "returned"
    /\ stdout' = stdout \o
          <<Line(<<"Weather Report for ", countries[1].name>>),
            format_single_report(ret.value[1])>>
    /\ exit' = <<0>>
    /\ cpc' = "done"
    /\ UNCHANGED <<stderr, countries, on_error, caller, pc>>
    /\ UNCHANGED cliFrame

\* cmd_continent: countries = get_countries_by_continent(name); if not countries: ... return 1
CmdContinentNotFound ==
    /\ cpc = "start"
    /\ cmd.command = "continent"
    /\ get_countries_by_continent(cmd.name) = <<>>
    /\ stderr' = stderr \o
          <<<<"Error: Continent '", cmd.name, "' not found.">>,
            <<"Use 'weather-report list-continents' to see available continents.">>>>
    /\ exit' = <<1>>
    /\ cpc' = "done"
    /\ UNCHANGED <<stdout, countries, on_error, caller, pc>>
    /\ UNCHANGED cliFrame

\* cmd_continent: weather_list = fetch_weather_batch(countries, on_error="skip")
CmdContinentFetch ==
    /\ cpc = "start"
    /\ cmd.command = "continent"
    /\ get_countries_by_continent(cmd.name) # <<>>
    /\ countries' = get_countries_by_continent(cmd.name)
    /\ on_error' = "skip"
    /\ stdout' = Append(stdout, Line(<<"Fetching weather data for ", cmd.name>>))
    /\ caller' = "batch"
    /\ pc' = "loop"
    /\ cpc' = "fetch"
    /\ UNCHANGED <<stderr, exit>>
    /\ UNCHANGED cliFrame

\* cmd_continent: the reports are printed; return 0
CmdContinentReport ==
    /\ cpc = "fetch"
    /\ cmd.command = "continent"
    /\ pc = "returned"
    /\ stdout' = stdout \o <<generate_full_report(ret.value), format_extremes_text(ret.value)>>
    /\ exit' = <<0>>
    /\ cpc' = "done"
    /\ UNCHANGED <<stderr, countries, on_error, caller, pc>>
    /\ UNCHANGED cliFrame

\* cmd_continent has no try block: an exception of the batch leaves the command
CmdContinentEscape ==
    /\ cpc = "fetch"
    /\ cmd.command = "continent"
    /\ pc = "raised"
    /\ cpc' = "escaped"
    /\ UNCHANGED <<stdout, stderr, exit, countries, on_error, caller, pc>>
    /\ UNCHANGED cliFrame

\* cmd_all: weather_list = fetch_weather_batch(get_all_countries(), on_error="skip")
CmdAllFetch ==
    /\ cpc = "start"
    /\ cmd.command = "all"
    /\ countries' = get_all_countries
    /\ on_error' = "skip"
    /\ stdout' = Append(stdout, Line(<<"Fetching weather data for all countries...">>))
    /\ caller' = "batch"
    /\ pc' = "loop"
    /\ cpc' = "fetch"
    /\ UNCHANGED <<stderr, exit>>
    /\ UNCHANGED cliFrame

\* a slip: a country without a reading is reported and the command fails
CmdAllReportStrict ==
    /\ cpc = "fetch"
    /\ cmd.command = "all"
    /\ pc = "returned"
    /\ stdout' = stdout \o <<generate_full_report(ret.value), format_extremes_text(ret.value)>>
    /\ stderr' = IF Len(ret.value) < Len(countries)
                 THEN Append(stderr, <<"Error: some countries could not be fetched">>)
                 ELSE stderr
    /\ exit' = IF Len(ret.value) < Len(countries) THEN <<1>> ELSE <<0>>
    /\ cpc' = "done"
    /\ UNCHANGED <<countries, on_error, caller, pc>>
    /\ UNCHANGED cliFrame

\* cmd_all: the reports are printed; return 0
CmdAllReport ==
    /\ cpc = "fetch"
    /\ cmd.command = "all"
    /\ pc = "returned"
    /\ stdout' = stdout \o <<generate_full_report(ret.value), format_extremes_text(ret.value)>>
    /\ exit' = <<0>>
    /\ cpc' = "done"
    /\ UNCHANGED <<stderr, countries, on_error, caller, pc>>
    /\ UNCHANGED cliFrame

\* cmd_all has no try block: an exception of the batch leaves the command
CmdAllEscape ==
    /\ cpc = "fetch"
    /\ cmd.command = "all"
    /\ pc = "raised"
    /\ cpc' = "escaped"
    /\ UNCHANGED <<stdout, stderr, exit, countries, on_error, caller, pc>>
    /\ UNCHANGED cliFrame

----------------------------------------------------------------------------
(* api.py: the handlers of the REST surface *)

\* a query parameter: <<>> when the request does not carry it (None), <<v>> when it does
Param(values) == {<<>>} \cup {<<v>> : v \in values}

\* `if param:` - None and the empty string are false
Truthy(param) == param # <<>> /\ param[1] # ""

ApiNames == {"India", "india", "Fiji", "Atlantis", "Asia", "ASIA", "Europe",
             "Oceania", "Narnia", "Tokyo", "TOKYO", "London", "NoSuchCity"}

Request(endpoint, name, country, continent, capitals_only) ==
    [endpoint |-> endpoint, name |-> name, country |-> country,
     continent |-> continent, capitals_only |-> capitals_only]

Requests ==
    {Request("list_countries", "", <<>>, c, FALSE) : c \in Param(ApiNames \cup {""})} \cup
    {Request("get_country", n, <<>>, <<>>, FALSE) : n \in ApiNames} \cup
    {Request("list_cities", "", c, <<>>, b) : c \in Param(ApiNames \cup {""}), b \in BOOLEAN} \cup
    {Request("get_city", n, <<>>, <<>>, FALSE) : n \in ApiNames} \cup
    {Request("list_regions", "", c, k, FALSE) :
        c \in Param(ApiNames \cup {""}), k \in Param(ApiNames \cup {""})} \cup
    {Request("list_continents", "", <<>>, <<>>, FALSE)}

\* HTTPException(status_code=404, detail=...)
HTTPException(detail) == [status |-> 404, detail |-> detail, body |-> <<>>]

\* a returned dict, answered with 200
Ok(body) == [status |-> 200, detail |-> <<>>, body |-> <<body>>]

Listing(kind, entries) == [kind |-> kind, count |-> Len(entries), items |-> entries]

\* a request arrives
InitRest ==
    /\ request \in Requests
    /\ response = NoResponse
    /\ countries = <<>>
    /\ on_error = "unset"
    /\ provider = {}
    /\ caller = "none"
    /\ pc = "idle"
    /\ code = 0
    /\ condition = "none"
    /\ Idle
    /\ CliIdle /\ StoreIdle /\ ObjIdle /\ ReportIdle

restFrame == <<request, cliVars, storeVars, objVars, reportVars, batchVars, codeVars,
               provider, caller, pc, ret, err, attempts, fetchVars>>

\* GET /countries[?continent=]
list_countries ==
    /\ request.endpoint = "list_countries"
    /\ response = NoResponse
    /\ response' =
          IF Truthy(request.continent)
          THEN IF get_countries_by_continent(request.continent[1]) = <<>>
               THEN HTTPException(<<"Continent '", request.continent[1], "' not found">>)
               ELSE Ok(Listing("countries", get_countries_by_continent(request.continent[1])))
          ELSE Ok(Listing("countries", get_all_countries))
    /\ UNCHANGED restFrame

\* GET /countries/{country_name}
get_country ==
    /\ request.endpoint = "get_country"
    /\ response = NoResponse
    /\ response' =
          IF get_country_by_name(request.name) = None
          THEN HTTPException(<<"Country '", request.name, "' not found">>)
          ELSE Ok([kind |-> "country", count |-> 1,
                   items |-> <<get_country_by_name(request.name)>>,
                   cities |-> get_cities_by_country(request.name),
                   regions |-> get_regions_by_country(request.name)])
    /\ UNCHANGED restFrame

\* a slip: capitals_only narrows the cities of the country
list_cities_both ==
    /\ request.endpoint = "list_cities"
    /\ response = NoResponse
    /\ response' =
          IF Truthy(request.country)
          THEN IF get_cities_by_country(request.country[1]) = <<>>
               THEN HTTPException(<<"No cities found for country '", request.country[1], "'">>)
               ELSE Ok(Listing("cities",
                               SelectSeq(get_cities_by_country(request.country[1]),
                                         LAMBDA c : request.capitals_only => c.is_capital)))
          ELSE IF request.capitals_only
               THEN Ok(Listing("cities", get_capital_cities))
               ELSE Ok(Listing("cities", get_all_cities))
    /\ UNCHANGED restFrame

\* GET /cities[?country=|capitals_only=]
list_cities ==
    /\ request.endpoint = "list_cities"
    /\ response = NoResponse
    /\ response' =
          IF Truthy(request.country)
          THEN IF get_cities_by_country(request.country[1]) = <<>>
               THEN HTTPException(<<"No cities found for country '", request.country[1], "'">>)
               ELSE Ok(Listing("cities", get_cities_by_country(request.country[1])))
          ELSE IF request.capitals_only
               THEN Ok(Listing("cities", get_capital_cities))
               ELSE Ok(Listing("cities", get_all_cities))
    /\ UNCHANGED restFrame

\* GET /cities/{city_name}
get_city ==
    /\ request.endpoint = "get_city"
    /\ response = NoResponse
    /\ response' =
          IF get_city_by_name(request.name) = None
          THEN HTTPException(<<"City '", request.name, "' not found">>)
          ELSE Ok([kind |-> "city", count |-> 1,
                   items |-> <<get_city_by_name(request.name)>>])
    /\ UNCHANGED restFrame

\* GET /regions[?country=|continent=]
list_regions ==
    /\ request.endpoint = "list_regions"
    /\ response = NoResponse
    /\ response' =
          IF Truthy(request.country)
          THEN IF get_regions_by_country(request.country[1]) = <<>>
               THEN HTTPException(<<"No regions found for country '", request.country[1], "'">>)
               ELSE Ok(Listing("regions", get_regions_by_country(request.country[1])))
          ELSE IF Truthy(request.continent)
               THEN IF get_regions_by_continent(request.continent[1]) = <<>>
                    THEN HTTPException(<<"No regions found for continent '",
                                         request.continent[1], "'">>)
                    ELSE Ok(Listing("regions", get_regions_by_continent(request.continent[1])))
               ELSE Ok(Listing("regions", get_all_regions))
    /\ UNCHANGED restFrame

\* GET /continents
list_continents ==
    /\ request.endpoint = "list_continents"
    /\ response = NoResponse
    /\ response' =
          Ok(Listing("continents",
                     [k \in 1..Len(get_all_continents) |->
                         [name |-> get_all_continents[k],
                          country_count |->
                              Len(get_countries_by_continent(get_all_continents[k])),
                          region_count |->
                              Len(get_regions_by_continent(get_all_continents[k]))]]))
    /\ UNCHANGED restFrame

----------------------------------------------------------------------------
(* Calls of the geography store *)

\* the names the store is asked for
StoreNames == DOMAIN LowerCase \cup
    {"", "india", "japan", "tokyo", "london", "asia", "europe", "united kingdom"}

Query(fn, arg) == [fn |-> fn, arg |-> arg]

\* the store is loaded and nothing has been asked
InitStore ==
    /\ query = NoQuery
    /\ answer = <<>>
    /\ tables = LoadedTables
    /\ held = <<>>
    /\ countries = <<>>
    /\ on_error = "unset"
    /\ provider = {}
    /\ caller = "none"
    /\ pc = "idle"
    /\ code = 0
    /\ condition = "none"
    /\ Idle
    /\ CliIdle /\ ApiIdle /\ ObjIdle /\ ReportIdle

storeFrame == <<cliVars, apiVars, objVars, reportVars, batchVars, codeVars,
                provider, caller, pc, ret, err, attempts, fetchVars>>

\* one call fn(arg) that returns `value`
Asked(fn, arg, value) ==
    /\ query = NoQuery
    /\ query' = Query(fn, arg)
    /\ answer' = <<value>>
    /\ UNCHANGED <<tables, held>>
    /\ UNCHANGED storeFrame

CallGetCountryByName ==
    \E name \in StoreNames : Asked("get_country_by_name", name, get_country_by_name(name))

CallGetCityByName ==
    \E name \in StoreNames : Asked("get_city_by_name", name, get_city_by_name(name))

CallGetCountriesByContinent ==
    \E name \in StoreNames :
        Asked("get_countries_by_continent", name, get_countries_by_continent(name))

CallGetCitiesByCountry ==
    \E name \in StoreNames : Asked("get_cities_by_country", name, get_cities_by_country(name))

CallGetRegionsByCountry ==
    \E name \in StoreNames : Asked("get_regions_by_country", name, get_regions_by_country(name))

CallGetRegionsByContinent ==
    \E name \in StoreNames :
        Asked("get_regions_by_continent", name, get_regions_by_continent(name))

CallGetAllContinents == Asked("get_all_continents", "", get_all_continents)

----------------------------------------------------------------------------
(* Attribute assignment on the dataclass instances *)

\* an instance of a dataclass; `frozen` is the decorator's frozen=True
Instance(class, frozen, fields) == [class |-> class, frozen |-> frozen, fields |-> fields]

\* @dataclass class WeatherData: no frozen=True
WeatherDataInstances ==
    {Instance("WeatherData", FALSE, WeatherData(c, t, 60, 155, w)) :
        c \in Countries, t \in {250, -50}, w \in {0, 63}}

\* Country, City and Region reject assignment (test_country_is_frozen,
\* test_city_is_frozen, test_region_is_frozen)
GeographyInstances ==
    {Instance("Country", TRUE, COUNTRIES[k]) : k \in 1..Len(COUNTRIES)} \cup
    {Instance("City", TRUE, CITIES[k]) : k \in 1..Len(CITIES)} \cup
    {Instance("Region", TRUE, REGIONS[k]) : k \in 1..Len(REGIONS)}

StrFields == {"country", "capital", "continent", "condition", "name", "region"}
BoolFields == {"is_capital"}

\* values an assignment tries, of the field's own type
NewValues(field) ==
    IF field \in StrFields THEN {"Changed", "Elsewhere"}
    ELSE IF field \in BoolFields THEN BOOLEAN
    ELSE {999, -1}

\* an instance has been constructed
InitAssign ==
    /\ obj \in WeatherDataInstances \cup GeographyInstances
    /\ assignment = NoAssignment
    /\ countries = <<>>
    /\ on_error = "unset"
    /\ provider = {}
    /\ caller = "none"
    /\ pc = "idle"
    /\ code = 0
    /\ condition = "none"
    /\ Idle
    /\ CliIdle /\ ApiIdle /\ StoreIdle /\ ReportIdle

assignFrame == <<cliVars, apiVars, storeVars, reportVars, batchVars, codeVars,
                 provider, caller, pc, ret, err, attempts, fetchVars>>

\* obj.field = value on a frozen dataclass: FrozenInstanceError, an AttributeError
SetAttrFrozen ==
    /\ obj # None
    /\ assignment.field = "none"
    /\ obj.frozen
    /\ \E field \in DOMAIN obj.fields : \E value \in NewValues(field) :
          assignment' = [field |-> field, value |-> value, raised |-> "AttributeError",
                         before |-> obj]
    /\ UNCHANGED obj
    /\ UNCHANGED assignFrame

\* obj.field = value on a plain dataclass: the attribute is set
SetAttr ==
    /\ obj # None
    /\ assignment.field = "none"
    /\ ~obj.frozen
    /\ \E field \in DOMAIN obj.fields : \E value \in NewValues(field) :
          /\ obj' = [obj EXCEPT !.fields[field] = value]
          /\ assignment' = [field |-> field, value |-> value, raised |-> "none",
                            before |-> obj]
    /\ UNCHANGED assignFrame

----------------------------------------------------------------------------
(* report.py: find_extremes *)

\* longest list handed to find_extremes
MaxReadings == 3

\* readings as make_weather builds them, with equal temperatures, humidities and winds among them
Readings ==
    {WeatherData(SAMPLE_COUNTRY, 250, 60, 155, 0),
     WeatherData(OTHER_COUNTRY, -100, 95, 50, 63),
     WeatherData(COUNTRIES[1], 450, 10, 800, 0),
     WeatherData(COUNTRIES[2], 250, 95, 155, 73),
     WeatherData(COUNTRIES[3], -100, 10, 0, 3)}

WeatherLists == UNION {[1..n -> Readings] : n \in 0..MaxReadings}

RECURSIVE MaxFrom(_, _, _, _)
\* max(...) scanning from the k-th element: a later element replaces `best`
\* only when its key is greater
MaxFrom(wl, key, k, best) ==
    IF k > Len(wl) THEN best
    ELSE MaxFrom(wl, key, k + 1, IF wl[k][key] > best[key] THEN wl[k] ELSE best)

RECURSIVE MinFrom(_, _, _, _)
\* min(...) scanning from the k-th element: a later element replaces `best`
\* only when its key is smaller
MinFrom(wl, key, k, best) ==
    IF k > Len(wl) THEN best
    ELSE MinFrom(wl, key, k + 1, IF wl[k][key] < best[key] THEN wl[k] ELSE best)

\* a slip: the scan starts from the last element, which then wins a tie
MaxSeededLast(wl, key) == MaxFrom(wl, key, 1, wl[Len(wl)])

\* max(weather_list, key=lambda w: w.<key>)
Max(wl, key) == MaxFrom(wl, key, 2, wl[1])

\* min(weather_list, key=lambda w: w.<key>)
Min(wl, key) == MinFrom(wl, key, 2, wl[1])

\* a slip: the key of the line above copied into most_humid
find_extremes_copied_key(wl) ==
    IF wl = <<>>
    THEN [hottest |-> None, coldest |-> None, most_humid |-> None, windiest |-> None]
    ELSE [hottest |-> Max(wl, "temperature_celsius"),
          coldest |-> Min(wl, "temperature_celsius"),
          most_humid |-> Min(wl, "temperature_celsius"),
          windiest |-> Max(wl, "wind_speed_kmh")]

find_extremes(wl) ==
    IF wl = <<>>
    THEN [hottest |-> None, coldest |-> None, most_humid |-> None, windiest |-> None]
    ELSE [hottest |-> Max(wl, "temperature_celsius"),
          coldest |-> Min(wl, "temperature_celsius"),
          most_humid |-> Max(wl, "humidity"),
          windiest |-> Max(wl, "wind_speed_kmh")]

\* a list of readings is at hand
InitReport ==
    /\ weather_list \in WeatherLists
    /\ extremes = None
    /\ summary = None
    /\ countries = <<>>
    /\ on_error = "unset"
    /\ provider = {}
    /\ caller = "none"
    /\ pc = "idle"
    /\ code = 0
    /\ condition = "none"
    /\ Idle
    /\ CliIdle /\ ApiIdle /\ StoreIdle /\ ObjIdle

reportFrame == <<cliVars, apiVars, storeVars, objVars, batchVars, codeVars,
                 provider, caller, pc, ret, err, attempts, fetchVars>>

\* extremes = find_extremes(weather_list)
FindExtremes ==
    /\ extremes = None
    /\ extremes' = find_extremes(weather_list)
    /\ UNCHANGED <<weather_list, summary>>
    /\ UNCHANGED reportFrame

----------------------------------------------------------------------------
(* get_all_countries / get_all_cities / get_all_regions and the lists they return *)

\* lists a caller holds at a time
MaxHeld == 2

Kinds == {"countries", "cities", "regions"}

\* a slip: the module's own list is handed out
ListAlias(kind, items) == [kind |-> kind, shared |-> TRUE, mutated |-> FALSE, items |-> items]

\* list(table): a new list with the entries of the module's table
ListCopy(kind, items) == [kind |-> kind, shared |-> FALSE, mutated |-> FALSE, items |-> items]

\* what a caller may do to a list it holds
Mutations == {"clear", "pop", "append"}

Mutated(items, op) ==
    CASE op = "clear" -> <<>>
      [] op = "pop" -> SubSeq(items, 1, Len(items) - 1)
      [] op = "append" -> Append(items, items[1])

\* the tables are loaded and no list has been handed out
InitTables ==
    /\ tables = LoadedTables
    /\ held = <<>>
    /\ query = NoQuery
    /\ answer = <<>>
    /\ countries = <<>>
    /\ on_error = "unset"
    /\ provider = {}
    /\ caller = "none"
    /\ pc = "idle"
    /\ code = 0
    /\ condition = "none"
    /\ Idle
    /\ CliIdle /\ ApiIdle /\ ObjIdle /\ ReportIdle

\* get_all_countries(), get_all_cities() or get_all_regions() returns
GetAll ==
    /\ Len(held) < MaxHeld
    /\ \E kind \in Kinds :
          /\ held' = Append(held, ListCopy(kind, tables[kind]))
          /\ query' = Query("get_all", kind)
          /\ answer' = <<tables[kind]>>
    /\ UNCHANGED tables
    /\ UNCHANGED storeFrame

\* the caller changes a list it got: the list changes, and the module's table
\* with it when the list is the module's own
MutateHeld ==
    /\ \E k \in 1..Len(held) : \E op \in Mutations :
          /\ ~held[k].mutated
          /\ held[k].items # <<>>
          /\ held' = [held EXCEPT ![k].items = Mutated(held[k].items, op),
                                  ![k].mutated = TRUE]
          /\ tables' = IF held[k].shared
                       THEN [tables EXCEPT ![held[k].kind] = Mutated(held[k].items, op)]
                       ELSE tables
    /\ UNCHANGED <<query, answer>>
    /\ UNCHANGED storeFrame

----------------------------------------------------------------------------
(* report.py: format_continent_summary, in floating-point arithmetic *)

\* significant bits of a float of the model (a Python float has 53)
MantissaBits == 4

\* a float is a whole number of units of 2^(-FractionBits) degrees
FractionBits == MantissaBits + 2

\* the float of a whole number of degrees
Float(degrees) == degrees * (2 ^ FractionBits)

RECURSIVE Exponent(_)
\* the binary exponent of x >= 1: the greatest e with 2^e <= x
Exponent(x) == IF x < 2 THEN 0 ELSE 1 + Exponent(x \div 2)

\* the distance between neighbouring floats at x > 0
Ulp(x) ==
    IF Exponent(x) >= MantissaBits - 1 THEN 2 ^ (Exponent(x) - MantissaBits + 1) ELSE 1

\* num / den > 0 rounded to the nearest float, ties to the even mantissa
RoundPositive(num, den) ==
    LET u == Ulp(num \div den)
        lower == (num \div (den * u)) * u
        twice == 2 * (num - lower * den)
    IN  IF twice < den * u THEN lower
        ELSE IF twice > den * u THEN lower + u
        ELSE IF (lower \div u) % 2 = 0 THEN lower ELSE lower + u

\* num / den rounded to the nearest float
Round(num, den) ==
    IF num = 0 THEN 0
    ELSE IF num > 0 THEN RoundPositive(num, den) ELSE -RoundPositive(-num, den)

\* a + b and a / n on floats
FloatAdd(a, b) == Round(a + b, 1)
FloatDiv(a, n) == Round(a, n)

RECURSIVE SumFrom(_, _, _)
\* sum(values): the running total takes the values from left to right
SumFrom(values, k, total) ==
    IF k > Len(values) THEN total
    ELSE SumFrom(values, k + 1, FloatAdd(total, values[k]))

Sum(values) == SumFrom(values, 1, 0)

RECURSIVE IntSum(_)
\* sum(values) of integers: exact
IntSum(values) == IF values = <<>> THEN 0 ELSE Head(values) + IntSum(Tail(values))

\* min(values) and max(values) of a non-empty list of numbers
MinOf(values) == CHOOSE v \in {values[k] : k \in 1..Len(values)} :
                    \A k \in 1..Len(values) : v <= values[k]
MaxOf(values) == CHOOSE v \in {values[k] : k \in 1..Len(values)} :
                    \A k \in 1..Len(values) : v >= values[k]

\* make_weather(country=..., continent=..., temp_c=..., humidity=...) of the tests
make_weather(country, continent, temp_c, humidity) ==
    [country |-> country,
     capital |-> "TestCity",
     continent |-> continent,
     temperature_celsius |-> temp_c,
     temperature_fahrenheit |-> FloatAdd(FloatDiv(Round(temp_c * 9, 1), 5), Float(32)),
     humidity |-> humidity,
     wind_speed_kmh |-> Float(15),
     condition |-> "CLEAR",
     weather_code |-> 0]

SummaryReadings ==
    {make_weather("India", "Asia", Float(14), 60),
     make_weather("Japan", "Asia", Float(10), 95),
     make_weather("United Kingdom", "Europe", Float(12), 80),
     make_weather("Iceland", "Europe", Float(-14), 70),
     make_weather("Fiji", "Oceania", Float(14), 85)}

SummaryLists == UNION {[1..n -> SummaryReadings] : n \in 0..MaxReadings}

\* the five lines of one continent
Block(continent, data, n) ==
    LET temps == [k \in 1..Len(data) |-> data[k].temperature_celsius]
        humidities == [k \in 1..Len(data) |-> data[k].humidity]
    IN  [continent |-> continent,
         countries |-> Len(data),
         avg_temp |-> FloatDiv(Sum(temps), n),
         min_temp |-> MinOf(temps),
         max_temp |-> MaxOf(temps),
         avg_humidity |-> FloatDiv(Float(IntSum(humidities)), n)]

\* continent_data[continent]: the readings of the continent, in input order
ContinentData(wl, continent) == SelectSeq(wl, LAMBDA w : w.continent = continent)

\* sorted(continent_data.keys())
ContinentKeys(wl) == Sorted({wl[k].continent : k \in 1..Len(wl)})

\* a slip: the sum of a continent divided by the length of the whole list
format_continent_summary_whole(wl) ==
    [k \in 1..Len(ContinentKeys(wl)) |->
        Block(ContinentKeys(wl)[k], ContinentData(wl, ContinentKeys(wl)[k]), Len(wl))]

\* the blocks of the text, in order; no block stands for the empty text
format_continent_summary(wl) ==
    [k \in 1..Len(ContinentKeys(wl)) |->
        Block(ContinentKeys(wl)[k], ContinentData(wl, ContinentKeys(wl)[k]),
              Len(ContinentData(wl, ContinentKeys(wl)[k])))]

\* a list of readings is at hand
InitSummary ==
    /\ weather_list \in SummaryLists
    /\ extremes = None
    /\ summary = None
    /\ countries = <<>>
    /\ on_error = "unset"
    /\ provider = {}
    /\ caller = "none"
    /\ pc = "idle"
    /\ code = 0
    /\ condition = "none"
    /\ Idle
    /\ CliIdle /\ ApiIdle /\ StoreIdle /\ ObjIdle

\* summary = format_continent_summary(weather_list); a division by zero would
\* leave the function as ZeroDivisionError
FormatContinentSummary ==
    /\ summary = None
    /\ summary' =
          IF \E k \in 1..Len(ContinentKeys(weather_list)) :
                ContinentData(weather_list, ContinentKeys(weather_list)[k]) = <<>>
          THEN [raised |-> "ZeroDivisionError", blocks |-> <<>>]
          ELSE [raised |-> "none", blocks |-> format_continent_summary(weather_list)]
    /\ UNCHANGED <<weather_list, extremes>>
    /\ UNCHANGED reportFrame

----------------------------------------------------------------------------
(* Specifications *)

Next ==
    \/ BatchNext
    \/ FetchRequest
    \/ FetchTransport
    \/ FetchParse
    \/ FetchBuild
    \/ BatchAppend
    \/ BatchSkip
    \/ BatchRaise
    \/ BatchUncaught
    \/ BatchReturn

Spec == Init /\ [][Next]_vars

\* the batch is one sequential call: it takes its next step, and a fetch in
\* flight returns or fails within REQUEST_TIMEOUT seconds
SpecLive == Init /\ [][Next]_vars /\ WF_vars(Next)

NextFetch ==
    \/ DirectCall
    \/ FetchRequest
    \/ FetchTransport
    \/ FetchParse
    \/ FetchBuild
    \/ DirectReturn
    \/ DirectRaise

SpecFetch == InitFetch /\ [][NextFetch]_vars

NextCode == InterpretCode

SpecCode == InitCode /\ [][NextCode]_vars

NextCli ==
    \/ CmdCountryNotFound
    \/ CmdCountryFetch
    \/ CmdCountryError
    \/ CmdCountryEscape
    \/ CmdCountryReport
    \/ CmdContinentNotFound
    \/ CmdContinentFetch
    \/ CmdContinentReport
    \/ CmdContinentEscape
    \/ CmdAllFetch
    \/ CmdAllReport
    \/ CmdAllEscape
    \/ DirectCall
    \/ DirectReturn
    \/ DirectRaise
    \/ BatchNext
    \/ BatchAppend
    \/ BatchSkip
    \/ BatchUncaught
    \/ BatchReturn
    \/ FetchRequest
    \/ FetchTransport
    \/ FetchParse
    \/ FetchBuild

SpecCli == InitCli /\ [][NextCli]_vars

NextRest ==
    \/ list_countries
    \/ get_country
    \/ list_cities
    \/ get_city
    \/ list_regions
    \/ list_continents

SpecRest == InitRest /\ [][NextRest]_vars

NextStore ==
    \/ CallGetCountryByName
    \/ CallGetCityByName
    \/ CallGetCountriesByContinent
    \/ CallGetCitiesByCountry
    \/ CallGetRegionsByCountry
    \/ CallGetRegionsByContinent
    \/ CallGetAllContinents

SpecStore == InitStore /\ [][NextStore]_vars

NextTables ==
    \/ GetAll
    \/ MutateHeld

SpecTables == InitTables /\ [][NextTables]_vars

NextAssign ==
    \/ SetAttrFrozen
    \/ SetAttr

SpecAssign == InitAssign /\ [][NextAssign]_vars

NextReport == FindExtremes

SpecReport == InitReport /\ [][NextReport]_vars

NextSummary == FormatContinentSummary

SpecSummary == InitSummary /\ [][NextSummary]_vars

----------------------------------------------------------------------------
(* Properties *)

Finished == pc \in {"returned", "raised"}

Contains(msg, s) == \E k \in 1..Len(msg) : msg[k] = s

RECURSIVE Successes(_)
\* the readings of the invocations that succeeded, in the order they ended
Successes(outs) ==
    IF outs = <<>> THEN <<>>
    ELSE (IF Head(outs).kind = "ok" THEN Head(outs).data ELSE <<>>) \o Successes(Tail(outs))

OnlyServiceFailures ==
    \A k \in 1..Len(outcomes) : outcomes[k].kind \in {"ok", "WeatherServiceError"}

NamesLocation(msg, country) == Contains(msg, country.name) /\ Contains(msg, country.capital)

\* C1: under policy "skip", whatever mix of successes and WeatherServiceError
\* failures the fetches have, the batch returns exactly the readings of the
\* locations whose fetch succeeded, one each, in input order, and every location
\* of the input was attempted: a failure neither adds anything nor stops the loop.
C1_SkipReturnsSuccessesInOrder ==
    (caller = "batch" /\ on_error = "skip" /\ Finished /\ OnlyServiceFailures) =>
        /\ pc = "returned"
        /\ err = NoOutcome
        /\ attempts = [k \in 1..Len(countries) |-> k]
        /\ Len(outcomes) = Len(countries)
        /\ ret = Result(Successes(outcomes))
        /\ Len(ret.value) = Cardinality({k \in 1..Len(outcomes) : outcomes[k].kind = "ok"})
        /\ \A k \in 1..Len(outcomes) :
              outcomes[k].kind = "ok" => outcomes[k].data[1].country = countries[k].name

C1_Witness ==
    /\ caller = "batch" /\ on_error = "skip" /\ pc = "returned"
    /\ Len(outcomes) = 3
    /\ outcomes[1].kind = "WeatherServiceError"
    /\ outcomes[2].kind = "ok"
    /\ outcomes[3].kind = "ok"
    /\ outcomes[2].data # outcomes[3].data
    /\ Len(ret.value) = 2

\* C2: under policy "raise", at the first location whose fetch fails with
\* WeatherServiceError the batch aborts: that very error leaves the batch, no
\* fetch or request is made for a later location, and no list is returned, the
\* readings collected before included.
C2_RaiseAbortsAtFirstFailure ==
    \A k \in 1..Len(outcomes) :
        (/\ caller = "batch" /\ on_error = "raise"
         /\ outcomes[k].kind = "WeatherServiceError"
         /\ \A j \in 1..(k - 1) : outcomes[j].kind = "ok") =>
            /\ Len(outcomes) = k
            /\ Len(attempts) = k
            /\ Len(requestLog) = k
            /\ ret = NoResult
            /\ \/ pc = "wait" /\ fpc = "done" /\ fOut = outcomes[k]
               \/ /\ pc = "raised"
                  /\ err = outcomes[k]
                  /\ err.call = k
                  /\ NamesLocation(err.msg, countries[k])

C2_Witness ==
    /\ caller = "batch" /\ on_error = "raise" /\ pc = "raised"
    /\ Len(countries) = 3
    /\ Len(outcomes) = 2
    /\ Len(results) = 1
    /\ err.kind = "WeatherServiceError"
    /\ ret = NoResult

\* the single fetch_weather invocation has ended with the provider's answer fResp
FetchEnded == caller = "direct" /\ Len(outcomes) = 1

\* C3: a delivered response whose `current` object lacks one of the four
\* expected fields makes fetch_weather fail with WeatherServiceError naming the
\* location.
C3_MissingFieldIsServiceError ==
    (/\ FetchEnded /\ ~TransportFailed(fResp) /\ fResp.hasCurrent
     /\ DOMAIN fResp.current # Fields) =>
        /\ outcomes[1].kind = "WeatherServiceError"
        /\ NamesLocation(outcomes[1].msg, fCountry)

Coercible(current) ==
    /\ PyFloat(current["temperature_2m"]).ok
    /\ PyInt(current["weather_code"]).ok
    /\ PyInt(current["relative_humidity_2m"]).ok
    /\ PyFloat(current["wind_speed_10m"]).ok

\* C4: a delivered response that has all four fields, one of which cannot be
\* coerced to its numeric type, makes fetch_weather fail with
\* WeatherServiceError and with no other kind of error.
C4_BadNumberIsServiceError ==
    (/\ FetchEnded /\ ~TransportFailed(fResp) /\ fResp.hasCurrent
     /\ DOMAIN fResp.current = Fields /\ ~Coercible(fResp.current)) =>
        outcomes[1].kind = "WeatherServiceError"

\* C5: a delivered body that is not valid JSON, or a JSON object without the
\* `current` key, makes fetch_weather fail with WeatherServiceError whose
\* message holds the country name and the capital; no WeatherData comes out.
C5_UnparsableBodyIsServiceError ==
    (/\ FetchEnded /\ ~TransportFailed(fResp)
     /\ \/ fResp.body = "notjson"
        \/ fResp.body = "object" /\ ~fResp.hasCurrent) =>
        /\ outcomes[1].kind = "WeatherServiceError"
        /\ NamesLocation(outcomes[1].msg, fCountry)
        /\ outcomes[1].data = <<>>
        /\ ret = NoResult
        /\ pc = "raised" => err = outcomes[1]

C5_Witness ==
    /\ caller = "direct" /\ pc = "raised"
    /\ fResp.body = "object" /\ ~fResp.hasCurrent /\ fResp.transport = "ok"
    /\ err.kind = "WeatherServiceError"
    /\ Contains(err.msg, "'current'")

C7_EmptyInputNoFetch ==
    (caller = "batch" /\ countries = <<>>) =>
        /\ calls = 0
        /\ requestLog = <<>>
        /\ attempts = <<>>
        /\ inflight = 0
        /\ pc \in {"loop", "returned"}
        /\ pc = "loop" => ENABLED BatchReturn
        /\ pc = "returned" => ret = Result(<<>>)
        /\ err = NoOutcome

C7_Witness ==
    caller = "batch" /\ countries = <<>> /\ on_error = "raise" /\ pc = "returned"

\* C8: the batch hands the locations to fetch_weather in input order, one at a
\* time: the k-th request is for the k-th location, it goes out only after
\* the fetch before it has ended, and at most one request is in flight.
C8_InOrderOneAtATime ==
    caller = "batch" =>
        /\ inflight \in {0, 1}
        /\ attempts = [k \in 1..i |-> k]
        /\ Len(requestLog) <= Len(attempts)
        /\ \A k \in 1..Len(requestLog) :
              /\ requestLog[k].call = k
              /\ requestLog[k].latitude = countries[k].latitude
              /\ requestLog[k].longitude = countries[k].longitude
        /\ Len(attempts) <= Len(outcomes) + 1
        /\ Len(outcomes) <= Len(requestLog)
        /\ inflight = 1 => Len(outcomes) = Len(requestLog) - 1

C8_Witness ==
    /\ caller = "batch"
    /\ Len(requestLog) = 3
    /\ inflight = 1
    /\ Len(outcomes) = 2
    /\ countries[2] # countries[3]
    /\ outcomes[2].kind # "ok"

\* C9: every fetch_weather invocation makes exactly one outbound request,
\* whether it succeeds or fails, so that in a batch no location is requested
\* twice: nothing is retried, after a timeout or any other failure.
C9_OneRequestPerFetch ==
    /\ \A k \in 1..Len(outcomes) :
          Cardinality({j \in 1..Len(requestLog) : requestLog[j].call = k}) = 1
    /\ Len(requestLog) <= calls
    /\ fpc \notin {"idle", "request"} => Len(requestLog) = calls
    /\ Finished => Len(requestLog) = Len(attempts)
    /\ \A j, k \in 1..Len(attempts) : attempts[j] = attempts[k] => j = k

C9_Witness ==
    /\ caller = "batch" /\ pc = "returned"
    /\ Len(outcomes) = 3
    /\ \E k \in 1..3 : Contains(outcomes[k].msg, "Read timed out")
    /\ outcomes[3].kind = "ok"
    /\ Len(requestLog) = 3

\* the table of the provider's codes, by rows
TableCondition(c) ==
    CASE c \in {0, 1} -> "CLEAR"
      [] c \in {2} -> "PARTLY_CLOUDY"
      [] c \in {3} -> "OVERCAST"
      [] c \in {45, 48} -> "FOG"
      [] c \in {51, 53, 55, 56, 57} -> "DRIZZLE"
      [] c \in {61, 63, 65, 66, 67, 80, 81, 82} -> "RAIN"
      [] c \in {71, 73, 75, 77, 85, 86} -> "SNOW"
      [] c \in {95, 96, 99} -> "THUNDERSTORM"
      [] OTHER -> "UNKNOWN"

\* C10: interpret_weather_code returns, for every integer code, one of the nine
\* conditions, the one the table gives; a code outside the table, a negative one
\* included, gives UNKNOWN and never an error.
C10_CodeTable ==
    (caller = "none" /\ pc = "returned") =>
        /\ condition \in WeatherCondition
        /\ condition = TableCondition(code)
        /\ code < 0 => condition = "UNKNOWN"

C10_Witness ==
    caller = "none" /\ pc = "returned" /\ code = 82 /\ condition = "RAIN"

\* the reading a fetch_weather invocation returned
Reading(out) == out.data[1]

Truncated(v, n) ==
    IF v >= 0 THEN 10 * n <= v /\ v < 10 * n + 10
    ELSE 10 * n >= v /\ v > 10 * n - 10

\* C12 as stated: on a successful fetch the reading's temperature, humidity and
\* wind speed equal the values of the response and its weather_code is the raw
\* provider code.
C12_ReadingEqualsResponse ==
    (FetchEnded /\ outcomes[1].kind = "ok") =>
        LET d == Reading(outcomes[1])
            cur == fResp.current
        IN  /\ d.temperature_celsius = cur["temperature_2m"].v
            /\ d.wind_speed_kmh = cur["wind_speed_10m"].v
            /\ 10 * d.humidity = cur["relative_humidity_2m"].v
            /\ 10 * d.weather_code = cur["weather_code"].v

\* C12, amended: on a successful fetch the reading's country, capital and
\* continent are those of the location passed in, its temperature and wind
\* speed equal the values of the response, its humidity and weather_code are
\* the response's values cut to integers by int() (equal to them when the
\* provider sends integers), and its condition is the table's condition for
\* that weather_code (63 -> Rain, 73 -> Snow, 0 -> Clear).
C12_ReadingFromResponse ==
    (FetchEnded /\ outcomes[1].kind = "ok") =>
        LET d == Reading(outcomes[1])
            cur == fResp.current
        IN  /\ d.country = fCountry.name
            /\ d.capital = fCountry.capital
            /\ d.continent = fCountry.continent
            /\ d.temperature_celsius = cur["temperature_2m"].v
            /\ d.wind_speed_kmh = cur["wind_speed_10m"].v
            /\ Truncated(cur["relative_humidity_2m"].v, d.humidity)
            /\ Truncated(cur["weather_code"].v, d.weather_code)
            /\ d.condition = TableCondition(d.weather_code)
            /\ cur["weather_code"].v = 630 => d.condition = "RAIN"
            /\ cur["weather_code"].v = 730 => d.condition = "SNOW"
            /\ cur["weather_code"].v = 0 => d.condition = "CLEAR"

C12_Witness ==
    /\ caller = "direct" /\ pc = "returned"
    /\ fCountry = OTHER_COUNTRY
    /\ fResp.current["weather_code"].v = 730
    /\ fResp.current["relative_humidity_2m"].v = 907
    /\ Reading(outcomes[1]).humidity = 90
    /\ Reading(outcomes[1]).condition = "SNOW"
    /\ ret = Result(outcomes[1].data)

\* the command has ended, by returning or by an exception leaving it
CliEnded == cpc \in {"done", "escaped"}

\* no entry of the table carries the name, ignoring case
NoSuchName(table, name) ==
    \A k \in 1..Len(table) : Lower(table[k].name) # Lower(name)

\* the entries of COUNTRIES of the continent, in table order
OfContinent(name) ==
    SelectSeq(COUNTRIES, LAMBDA c : Lower(c.continent) = Lower(name))

\* one of the lines says `text`
Says(lines, text) == \E k \in 1..Len(lines) : Contains(lines[k], text)

\* C13 as stated: whatever the fetches answer (success, transport failure,
\* unparseable body, missing field, non-numeric value), the commands country,
\* continent and all end by returning exit code 0 or 1; no exception leaves a
\* command.
C13_NoExceptionEscapes ==
    /\ cpc # "escaped"
    /\ cpc = "done" => exit \in {<<0>>, <<1>>}

\* C14: `country NAME` returns 1, says 'not found' on standard error and issues
\* no fetch when NAME matches no country; returns 1, reports the error on
\* standard error and prints no report when the fetch raises
\* WeatherServiceError; returns 0 when the fetch succeeds; and a fetch is only
\* ever issued for the country the lookup found.
C14_CountryCommand ==
    cmd.command = "country" =>
        /\ calls > 0 =>
              /\ ~NoSuchName(COUNTRIES, cmd.name)
              /\ \A k \in 1..Len(requestLog) :
                    /\ requestLog[k].latitude = get_country_by_name(cmd.name).latitude
                    /\ requestLog[k].longitude = get_country_by_name(cmd.name).longitude
        /\ (cpc = "done" /\ NoSuchName(COUNTRIES, cmd.name)) =>
              /\ exit = <<1>>
              /\ Says(stderr, "' not found.")
              /\ Says(stderr, cmd.name)
              /\ stdout = <<>>
              /\ calls = 0 /\ requestLog = <<>>
        /\ (cpc = "done" /\ calls > 0 /\ outcomes[1].kind = "WeatherServiceError") =>
              /\ exit = <<1>>
              /\ stderr = <<(<<"Error: ">> \o outcomes[1].msg)>>
              /\ stdout = <<>>
        /\ (cpc = "done" /\ calls > 0 /\ outcomes[1].kind = "ok") =>
              /\ exit = <<0>>
              /\ stderr = <<>>
              /\ Len(stdout) = 2
              /\ stdout[2] = format_single_report(Reading(outcomes[1]))
        /\ (CliEnded /\ ~NoSuchName(COUNTRIES, cmd.name)) => calls = 1

C14_Witness ==
    /\ cmd = [command |-> "country", name |-> "india"]
    /\ cpc = "done"
    /\ exit = <<1>>
    /\ calls = 1
    /\ outcomes[1].kind = "WeatherServiceError"
    /\ Says(stderr, "India")

\* C15 as stated: `continent NAME` returns 1, says 'not found' on standard
\* error and issues no fetch when no country belongs to NAME; otherwise it runs
\* one batch over exactly the countries of the continent with policy skip and
\* returns 0.
C15_ContinentCommand ==
    (cmd.command = "continent" /\ CliEnded) =>
        IF OfContinent(cmd.name) = <<>>
        THEN /\ exit = <<1>>
             /\ Says(stderr, "' not found.")
             /\ calls = 0 /\ requestLog = <<>>
        ELSE /\ countries = OfContinent(cmd.name)
             /\ on_error = "skip"
             /\ caller = "batch"
             /\ exit = <<0>>

\* the entries of `table` whose field `parent` equals the name, ignoring case
Children(table, parent, name) ==
    {k \in 1..Len(table) : Lower(table[k][parent]) = Lower(name)}

\* the answer is 404 and its detail carries the requested value
NotFound404(value) == response.status = 404 /\ Contains(response.detail, value)

\* a filter that is given and matches nothing is answered 404 naming its value
FilterAnswered(param, table, parent) ==
    (param # <<>> /\ Children(table, parent, param[1]) = {}) => NotFound404(param[1])

\* a filter that is given and matches something
FilterMatches(param, table, parent) ==
    param # <<>> /\ Children(table, parent, param[1]) # {}

\* C16 as stated: GET /countries/{name} and /cities/{name} with a name matching
\* no entry, and /countries?continent=, /cities?country=, /regions?country=,
\* /regions?continent= with a filter value matching no entry, answer 404 with a
\* detail that contains the requested value; every request that matches at
\* least one entry answers 200.
C16_UnmatchedIs404 ==
    response # NoResponse =>
        /\ request.endpoint = "get_country" =>
              IF NoSuchName(COUNTRIES, request.name)
              THEN NotFound404(request.name) ELSE response.status = 200
        /\ request.endpoint = "get_city" =>
              IF NoSuchName(CITIES, request.name)
              THEN NotFound404(request.name) ELSE response.status = 200
        /\ request.endpoint = "list_countries" =>
              /\ FilterAnswered(request.continent, COUNTRIES, "continent")
              /\ FilterMatches(request.continent, COUNTRIES, "continent")
                    => response.status = 200
        /\ request.endpoint = "list_cities" =>
              /\ FilterAnswered(request.country, CITIES, "country")
              /\ FilterMatches(request.country, CITIES, "country")
                    => response.status = 200
        /\ request.endpoint = "list_regions" =>
              /\ FilterAnswered(request.country, REGIONS, "country")
              /\ FilterAnswered(request.continent, REGIONS, "continent")
              /\ (FilterMatches(request.country, REGIONS, "country")
                    /\ request.continent = <<>>) => response.status = 200
              /\ (FilterMatches(request.continent, REGIONS, "continent")
                    /\ request.country = <<>>) => response.status = 200

\* spellings of stored names, written out
CountrySpellings ==
    {[stored |-> "India", asked |-> {"India", "india", "INDIA"}],
     [stored |-> "Japan", asked |-> {"Japan", "japan", "JAPAN"}],
     [stored |-> "United Kingdom", asked |-> {"United Kingdom", "united kingdom"}]}

CitySpellings ==
    {[stored |-> "Tokyo", asked |-> {"Tokyo", "tokyo", "TOKYO"}],
     [stored |-> "London", asked |-> {"London", "london"}]}

\* names that are no entry of either table: empty, unknown, a proper prefix
Absent == {"", "Atlantis", "NoSuchCity", "Narnia", "Indi"}

\* the answer of a lookup by name in `table`, whose spellings are `spellings`
LookupAnswer(table, spellings) ==
    LET a == answer[1]
    IN  /\ a = None \/ \E k \in 1..Len(table) : a = table[k]
        /\ a = None <=> NoSuchName(table, query.arg)
        /\ a # None => Lower(a.name) = Lower(query.arg)
        /\ \A s \in spellings :
              query.arg \in s.asked =>
                  /\ a # None
                  /\ a.name = s.stored
                  /\ a = ByName(table, s.stored)
        /\ query.arg \in Absent => a = None

\* C17: get_country_by_name and get_city_by_name match the whole name ignoring
\* case: every spelling of a stored name returns the same entry, carrying the
\* stored name; the empty string and a name of no entry return None.
C17_LookupIgnoresCase ==
    /\ query.fn = "get_country_by_name" => LookupAnswer(COUNTRIES, CountrySpellings)
    /\ query.fn = "get_city_by_name" => LookupAnswer(CITIES, CitySpellings)

C17_Witness ==
    /\ query = Query("get_country_by_name", "JAPAN")
    /\ answer[1].name = "Japan"
    /\ answer[1].capital = "Tokyo"

\* the names of the entries of a list, in order
Names(entries) == [k \in 1..Len(entries) |-> entries[k].name]

\* the answer of a filter of `table` by its field `parent`
FilterAnswer(table, parent) ==
    LET a == answer[1]
        kept == Children(table, parent, query.arg)
    IN  /\ Len(a) = Cardinality(kept)
        /\ \A k \in 1..Len(table) : (k \in kept) <=> (\E j \in 1..Len(a) : a[j] = table[k])
        /\ \A j \in 1..Len(a) : \E k \in kept : a[j] = table[k]
        /\ query.arg \in Absent => a = <<>>

\* C18: the filters by parent return exactly the entries whose parent name is
\* the given name ignoring case, and the empty list when nothing matches.
C18_FilterByParent ==
    /\ query.fn = "get_countries_by_continent" =>
          /\ FilterAnswer(COUNTRIES, "continent")
          /\ query.arg \in {"Asia", "asia", "ASIA"} => Names(answer[1]) = <<"India", "Japan">>
    /\ query.fn = "get_cities_by_country" =>
          /\ FilterAnswer(CITIES, "country")
          /\ query.arg \in {"India", "india", "INDIA"} =>
                Names(answer[1]) = <<"New Delhi", "Mumbai">>
    /\ query.fn = "get_regions_by_country" =>
          /\ FilterAnswer(REGIONS, "country")
          /\ query.arg \in {"Japan", "japan", "JAPAN"} => Names(answer[1]) = <<"Kanto", "Kansai">>
    /\ query.fn = "get_regions_by_continent" =>
          /\ FilterAnswer(REGIONS, "continent")
          /\ query.arg \in {"Europe", "europe"} => Names(answer[1]) = <<"England">>
          /\ query.arg = "Oceania" => answer[1] = <<>>

C18_Witness ==
    /\ query = Query("get_regions_by_continent", "asia")
    /\ Names(answer[1]) = <<"Maharashtra", "Kanto", "Kansai">>

\* C19 as stated: a WeatherData reading is immutable like Country, City and
\* Region: an assignment to a field of a constructed instance is rejected with
\* an error and leaves the instance as it was.
C19_AssignmentRejected ==
    assignment.field # "none" =>
        /\ assignment.raised = "AttributeError"
        /\ obj.fields = assignment.before.fields

\* `w` is an element of the list
ElementOf(w, wl) == \E k \in 1..Len(wl) : wl[k] = w

\* C20: find_extremes of the empty list returns None for hottest, coldest,
\* most_humid and windiest; of a non-empty list each of the four is an element
\* of the list, hottest with the greatest and coldest with the least
\* temperature_celsius, most_humid with the greatest humidity and windiest
\* with the greatest wind_speed_kmh of the list.
C20_Extremes ==
    extremes # None =>
        IF weather_list = <<>>
        THEN /\ extremes.hottest = None
             /\ extremes.coldest = None
             /\ extremes.most_humid = None
             /\ extremes.windiest = None
             /\ DOMAIN extremes = {"hottest", "coldest", "most_humid", "windiest"}
        ELSE /\ DOMAIN extremes = {"hottest", "coldest", "most_humid", "windiest"}
             /\ \A key \in DOMAIN extremes : ElementOf(extremes[key], weather_list)
             /\ \A k \in 1..Len(weather_list) :
                   /\ weather_list[k].temperature_celsius
                         <= extremes.hottest.temperature_celsius
                   /\ weather_list[k].temperature_celsius
                         >= extremes.coldest.temperature_celsius
                   /\ weather_list[k].humidity <= extremes.most_humid.humidity
                   /\ weather_list[k].wind_speed_kmh <= extremes.windiest.wind_speed_kmh

C20_Witness ==
    /\ Len(weather_list) = MaxReadings
    /\ extremes # None
    /\ extremes.hottest.country = "India"
    /\ extremes.coldest.country = OTHER_COUNTRY.name
    /\ extremes.most_humid.country = "Japan"
    /\ extremes.windiest.country = "India"

RECURSIVE CountriesIn(_)
\* the number of countries get_countries_by_continent returns, summed over a list of continents
CountriesIn(continents) ==
    IF continents = <<>> THEN 0
    ELSE Len(get_countries_by_continent(Head(continents))) + CountriesIn(Tail(continents))

\* C21: get_all_continents returns the continent names in ascending order
\* without duplicates, every listed continent has at least one country, and
\* the countries of the listed continents add up to all countries.
C21_ContinentsPartition ==
    query.fn = "get_all_continents" =>
        LET a == answer[1]
        IN  /\ \A k \in 1..(Len(a) - 1) : AlphabeticalRank[a[k]] < AlphabeticalRank[a[k + 1]]
            /\ \A j, k \in 1..Len(a) : j # k => a[j] # a[k]
            /\ \A k \in 1..Len(a) : Len(get_countries_by_continent(a[k])) > 0
            /\ CountriesIn(a) = Len(get_all_countries)
            /\ \A k \in 1..Len(COUNTRIES) : \E j \in 1..Len(a) : a[j] = COUNTRIES[k].continent

C21_Witness ==
    /\ query.fn = "get_all_continents"
    /\ answer[1] = <<"Asia", "Europe", "Oceania">>

\* C22 as stated: under policy "skip" every location of the input is attempted
\* exactly once and the batch returns a list, whatever kind of failure a fetch
\* had (transport failure, unparseable body, missing `current`, missing field,
\* non-numeric value): no failure of one location ends the batch early.
C22_SkipNeverEndsEarly ==
    (caller = "batch" /\ on_error = "skip" /\ Finished) =>
        /\ pc = "returned"
        /\ ret.returned
        /\ attempts = [k \in 1..Len(countries) |-> k]
        /\ Len(outcomes) = Len(countries)

\* the listing of a 200 answer
Listed == response.body[1]

\* every listed item has `field` equal to the value of the filter, ignoring case
AllOf(field, param) ==
    \A k \in 1..Len(Listed.items) : Lower(Listed.items[k][field]) = Lower(param[1])

\* C23 as stated: in every list response (/countries, /cities, /regions,
\* /continents) `count` is the number of items returned; with a filter every
\* returned item has the filtered field equal to the filter value ignoring
\* case, capitals_only returns only capitals, and without a filter all entries
\* of the kind are returned.
C23_ListResponses ==
    (response.status = 200
       /\ request.endpoint \in {"list_countries", "list_cities", "list_regions",
                                "list_continents"}) =>
        /\ Listed.count = Len(Listed.items)
        /\ request.endpoint = "list_countries" =>
              IF request.continent # <<>> THEN AllOf("continent", request.continent)
              ELSE Listed.items = COUNTRIES
        /\ request.endpoint = "list_cities" =>
              /\ request.country # <<>> => AllOf("country", request.country)
              /\ request.capitals_only =>
                    \A k \in 1..Len(Listed.items) : Listed.items[k].is_capital
              /\ (request.country = <<>> /\ ~request.capitals_only) => Listed.items = CITIES
        /\ request.endpoint = "list_regions" =>
              /\ request.country # <<>> => AllOf("country", request.country)
              /\ request.continent # <<>> => AllOf("continent", request.continent)
              /\ (request.country = <<>> /\ request.continent = <<>>)
                    => Listed.items = REGIONS
        /\ request.endpoint = "list_continents" =>
              /\ Len(Listed.items) = Len(get_all_continents)
              /\ \A k \in 1..Len(Listed.items) :
                    /\ Listed.items[k].name = get_all_continents[k]
                    /\ Listed.items[k].country_count > 0

\* C24: the geography tables never change, and get_all_countries,
\* get_all_cities and get_all_regions hand out a fresh list each time: whatever
\* a caller did to the lists it got before, a list it has not touched holds the
\* entries of the table as loaded.
C24_TablesReadOnly ==
    /\ tables = LoadedTables
    /\ \A k \in 1..Len(held) :
          /\ ~held[k].shared
          /\ ~held[k].mutated => held[k].items = LoadedTables[held[k].kind]
    /\ query.fn = "get_all" => answer[1] = LoadedTables[query.arg]

C24_Witness ==
    /\ Len(held) = 2
    /\ held[1].kind = "countries" /\ held[1].mutated /\ held[1].items = <<>>
    /\ held[2].kind = "countries" /\ held[2].items = COUNTRIES
    /\ query = Query("get_all", "countries")
    /\ tables.countries = COUNTRIES

RECURSIVE CountrySum(_)
\* the country counts of the blocks, added up
CountrySum(blocks) ==
    IF blocks = <<>> THEN 0 ELSE Head(blocks).countries + CountrySum(Tail(blocks))

\* what C25 says of the blocks apart from the average: no ZeroDivisionError,
\* empty text for the empty list, one block per distinct continent in ascending
\* order of name, and country counts that add up to the length of the input
BlocksByContinent ==
    /\ summary.raised = "none"
    /\ weather_list = <<>> => summary.blocks = <<>>
    /\ \A k \in 1..Len(weather_list) :
          \E j \in 1..Len(summary.blocks) :
              summary.blocks[j].continent = weather_list[k].continent
    /\ \A j \in 1..Len(summary.blocks) :
          /\ \E k \in 1..Len(weather_list) :
                summary.blocks[j].continent = weather_list[k].continent
          /\ summary.blocks[j].countries =
                Cardinality({k \in 1..Len(weather_list) :
                                weather_list[k].continent = summary.blocks[j].continent})
    /\ \A j \in 1..(Len(summary.blocks) - 1) :
          AlphabeticalRank[summary.blocks[j].continent]
             < AlphabeticalRank[summary.blocks[j + 1].continent]
    /\ CountrySum(summary.blocks) = Len(weather_list)

Magnitude(a, b) ==
    LET abs(x) == IF x < 0 THEN -x ELSE x
    IN  IF abs(a) >= abs(b) THEN abs(a) ELSE abs(b)

Reported == SelectSeq(stdout, LAMBDA out : out.kind = "full_report")

\* C26: `all` and `continent NAME` with a known NAME end with exit code 0
\* whatever number of the fetches fail with WeatherServiceError, all of them
\* included: nothing is written to standard error, and the report printed
\* counts and lists exactly the fetches that succeeded.
C26_FailuresDroppedSilently ==
    (/\ cmd.command \in {"all", "continent"}
     /\ cmd.command = "continent" => OfContinent(cmd.name) # <<>>
     /\ CliEnded
     /\ OnlyServiceFailures) =>
        /\ cpc = "done"
        /\ exit = <<0>>
        /\ stderr = <<>>
        /\ Len(outcomes) = Len(countries)
        /\ Len(Reported) = 1
        /\ Reported[1].count = Len(Successes(outcomes))
        /\ Reported[1].rows =
              [k \in 1..Len(Successes(outcomes)) |-> Successes(outcomes)[k].country]

\* every fetch of `all` has failed with WeatherServiceError and the command has ended
C26_Witness ==
    /\ cmd.command = "all"
    /\ cpc = "done"
    /\ exit = <<0>>
    /\ Len(outcomes) = Len(get_all_countries)
    /\ Len(outcomes) > 1
    /\ \A k \in 1..Len(outcomes) : outcomes[k].kind = "WeatherServiceError"
    /\ Reported[1].count = 0


\* C27: every on_error value other than "raise", an unrecognised string
\* included, is treated as "skip": what the batch returns and which fetches it
\* issues is a function of the input and the outcomes of the fetches alone, a
\* WeatherServiceError is passed over, and the only exception that leaves is one
\* a fetch let through, never a rejection of the policy value.
C27_OtherPoliciesAreSkip ==
    (caller = "batch" /\ on_error # "raise") =>
        /\ attempts = [k \in 1..Len(attempts) |-> k]
        /\ calls = Len(attempts)
        /\ pc \in {"loop", "returned", "raised"} =>
              /\ results = Successes(outcomes)
              /\ Len(attempts) = Len(outcomes)
        /\ (pc = "wait" /\ fpc = "done" /\ fOut.kind = "WeatherServiceError") =>
              /\ ENABLED BatchSkip
              /\ ~ENABLED BatchRaise
        /\ pc = "returned" =>
              /\ ret = Result(Successes(outcomes))
              /\ Len(outcomes) = Len(countries)
              /\ OnlyServiceFailures
              /\ err = NoOutcome
        /\ pc = "raised" =>
              /\ ret = NoResult
              /\ err = outcomes[Len(outcomes)]
              /\ err.kind \notin {"ok", "WeatherServiceError"}
              /\ \A k \in 1..(Len(outcomes) - 1) :
                    outcomes[k].kind \in {"ok", "WeatherServiceError"}

\* the unrecognised policy "ignore": a failure is passed over and a later reading returned
C27_Witness ==
    /\ caller = "batch"
    /\ on_error = "ignore"
    /\ pc = "returned"
    /\ Len(outcomes) = 3
    /\ outcomes[1].kind = "WeatherServiceError"
    /\ outcomes[2].kind = "ok"
    /\ outcomes[3].kind = "WeatherServiceError"
    /\ Len(ret.value) = 1


\* the number of fetches the batch has issued
Fetches == Len(attempts)

\* the position of the first fetch that failed, 0 when none has
FirstFailure ==
    IF \A k \in 1..Len(outcomes) : outcomes[k].kind = "ok" THEN 0
    ELSE CHOOSE k \in 1..Len(outcomes) :
            /\ outcomes[k].kind # "ok"
            /\ \A j \in 1..(k - 1) : outcomes[j].kind = "ok"

\* what C28 says of a batch that has ended: exactly len(countries) fetches
\* under "skip"; under "raise" at most that many, ending at the first failure
EndedAfterItsFetches ==
    (caller = "batch" /\ Finished) =>
        /\ on_error = "skip" => Fetches = Len(countries)
        /\ on_error = "raise" =>
              /\ Fetches <= Len(countries)
              /\ FirstFailure = 0 => Fetches = Len(countries)
              /\ FirstFailure # 0 => Fetches = FirstFailure

\* C28: fetch_weather_batch terminates for every finite input list when every
\* fetch returns or fails: under "skip" after exactly len(countries) fetches,
\* under "raise" after at most len(countries) fetches, at the first failure.
C28_TerminatesAfterItsFetches ==
    /\ <>Finished
    /\ []EndedAfterItsFetches


\* the entries of `table` whose `parent` field is `name`, ignoring case, in table order
Under(table, parent, name) == SelectSeq(table, LAMBDA e : Lower(e[parent]) = Lower(name))

\* a filter the handler acts on: given and not the empty string
Given(param) == param # <<>> /\ param[1] # ""

\* the answer is 200 and lists exactly `entries`
Lists200(entries) ==
    /\ response.status = 200
    /\ response.body[1].items = entries
    /\ response.body[1].count = Len(entries)

FirstExtreme(wl, key, sign) ==
    wl[CHOOSE k \in 1..Len(wl) :
          /\ \A j \in 1..Len(wl) : sign * wl[j][key] <= sign * wl[k][key]
          /\ \A j \in 1..(k - 1) : wl[j][key] # wl[k][key]]

\* C30: when several readings tie for an extreme, find_extremes returns the
\* one that comes first in the input list, for hottest, coldest, most_humid and
\* windiest alike; with a single reading all four are that reading.
C30_FirstOfTiedWins ==
    (extremes # None /\ weather_list # <<>>) =>
        /\ extremes.hottest = FirstExtreme(weather_list, "temperature_celsius", 1)
        /\ extremes.coldest = FirstExtreme(weather_list, "temperature_celsius", -1)
        /\ extremes.most_humid = FirstExtreme(weather_list, "humidity", 1)
        /\ extremes.windiest = FirstExtreme(weather_list, "wind_speed_kmh", 1)
        /\ Len(weather_list) = 1 =>
              \A key \in DOMAIN extremes : extremes[key] = weather_list[1]

\* three different readings; the first ties with the second for hottest and
\* windiest and with the third for most humid, and is returned for all three
C30_Witness ==
    /\ extremes # None
    /\ Len(weather_list) = 3
    /\ weather_list[1].country # weather_list[2].country
    /\ weather_list[1].country # weather_list[3].country
    /\ weather_list[1].temperature_celsius = weather_list[2].temperature_celsius
    /\ weather_list[1].wind_speed_kmh = weather_list[2].wind_speed_kmh
    /\ weather_list[1].humidity = weather_list[3].humidity
    /\ extremes.hottest = weather_list[1]
    /\ extremes.windiest = weather_list[1]
    /\ extremes.most_humid = weather_list[1]
    /\ extremes.coldest = weather_list[3]

====
